---- MODULE Spec2Model ----
(***************************************************************************)
(* Batch transfer engine of the Vault loader (src/js/api.js, src/js/app.js)*)
(*                                                                         *)
(*   Spec          VeevaAPI.pullData against a remote object that holds    *)
(*                 dataLen records and may fail any request                *)
(*   SpecLive      Spec with weak fairness of the event loop               *)
(*   SpecSanitize  the bracket clean-up applied to pulled string values    *)
(*   SpecPush      VeevaAPI.pushData: clamp, batch preparation, submission *)
(***************************************************************************)
EXTENDS Bags, Integers, Sequences, FiniteSets, TLC

(***************************************************************************)
(* Bounds of the model                                                     *)
(***************************************************************************)
\* largest number of records the remote object holds
MaxData == 45
\* largest page size passed to pullData
MaxPageSize == 25

\* longest string value cleaned
MaxStrLen == 6

\* largest record count of the small push inputs
MaxRecords == 4
\* largest requested batch size of the small push inputs
MaxSmallBatch == 3
\* handler invocations that can await a response together
MaxCalls == 2
\* requests one operation issues at most
MaxRequests == 2
\* objects the remote service lists at most
MaxObjects == 2
\* fields of one object at most
MaxFieldsPerObject == 2
\* longest generated column or field name
MaxNameLen == 2
\* remote fields of the mapped object at most
MaxFields == 2
\* rows of the loaded file
MaxRows == 1
\* onObjectSelected invocations that await their fields together
MaxSelections == 2

\* page sizes passed to pullData: below the retry floor after halving (7, 19),
\* exactly at it (20), and above it with an odd size (25 -> 12)
PageSizes == {7, 19, 20, MaxPageSize}
\* record counts of the remote object
DataLens == {0, 13, MaxData}
\* Cursors are tracked exactly up to MaxOffset.  Every cursor >= MaxOffset is
\* past the end of the remote data whatever the page size, the remote answers
\* all of them alike, and they are represented by MaxOffset.
MaxOffset == MaxData + MaxPageSize + 1

(***************************************************************************)
(* Program constants                                                       *)
(***************************************************************************)
\* api.js:225  smallerBatchSize >= 10
MinRetryBatchSize == 10

\* api.js:300  Math.min(batchSize, 10) for merge
MergeBatchLimit == 10
\* api.js:300  Math.min(batchSize, 500) for insert, update, delete
BatchLimit == 500
\* api.js:294  batchSize = 200
DefaultPushBatchSize == 200
\* app.js:242  maxAllowed of the batch size input for non-merge operations
UiMaxBatchSize == 2000

NoSession == "null"
Tokens == {"session-1"}
\* marks "no request in flight" in reqOffset / reqLimit
NoRequest == 0 - 1

Min(a, b) == IF a < b THEN a ELSE b
Max(a, b) == IF a > b THEN a ELSE b

VARIABLES
    \* ---- VeevaAPI object
    sessionId,      \* VeevaAPI.sessionId (api.js:13)
    \* ---- remote service
    dataLen,        \* number of records of the pulled object
    \* ---- one pullData call
    pc,             \* "idle" | "auth" | "page" | "retry" | "done" | "error"
    batchSize,      \* parameter batchSize
    offset,         \* let offset
    allData,        \* let allData: the records, each named by its remote position
    moreData,       \* let moreData
    reqOffset,      \* offset= of the request in flight (NoRequest if none)
    reqLimit,       \* limit= of the request in flight (NoRequest if none)
    progressCalls,  \* arguments of the progressCallback calls, in call order
    \* ---- history of the call (not program state)
    attempt,        \* requests issued in the current loop iteration
    ingested,       \* <<offset, limit>> of every page added to allData
    lastResponse,   \* answer to the latest request: "none" | "ok" | "empty" | "fail"
    \* ---- one field value of a fetched record (record[key])
    sanPc,          \* "idle" | "raw" | "clean"
    sanInput,       \* record[key] as received
    sanOutput,      \* record[key] after the clean-up
    \* ---- one pushData call
    pushPc,         \* "idle" | "auth" | "preparing" | "batch" | "done" | "error"
    operation,      \* parameter operation
    data,           \* parameter data: the records, each named by its row number
    pushBatchSize,  \* parameter batchSize
    actualBatchSize,\* const actualBatchSize
    batches,        \* const batches
    results,        \* const results: total, success, failures, logs
    batchIndex,     \* loop variable i of the processing loop
    pushProgress,   \* arguments of the progressCallback calls, in call order
    submitted,      \* history: index (i + 1) of every batch sent, in order
    \* ---- VeevaAPI configuration and the handlers of app.js
    apiConfig,      \* VeevaAPI.apiUrl, username, password (api.js:8-10) as one triple
    operationInProgress, \* AppState.operationInProgress (app.js:13)
    calls,          \* the handler invocations that await a response
    \* ---- history of the handlers (not program state)
    lastEvent,      \* the init or the end of an operation in the latest step
    authsSinceInit, \* exchanges that gave a token since the latest init: 0, 1, 2 = more
    overlapped,     \* two exchanges were pending together since the latest init
    \* ---- one exportMetadata call
    expPc,          \* "idle" | "auth" | "list" | "fields" | "done" | "error"
    expObjects,     \* const objects
    expIndex,       \* loop variable i
    expResults,     \* const results: the pairs, each with the loop index it came from
    expProgress,    \* arguments of the progressCallback calls, in call order
    \* ---- history of the call (not program state)
    expListed,      \* the object names as the remote service listed them
    expFetched,     \* the answer to the field request of every object so far
    expFailure,     \* what made the call throw: "none" | "auth" | "list"
    \* ---- AppState of the push form and the operation handlers
    inputFileData,  \* AppState.inputFileData: loaded or not, and its columns
    availableFields,\* AppState.availableFields
    columnMappings, \* AppState.columnMappings
    lastCall,       \* history: what the latest handler was given and what it called
    pullObjectCombo,\* value of the object dropdown of the pull form
    pushObjectCombo,\* value of the object dropdown of the push form
    fieldFetches    \* the onObjectSelected invocations that await their fields

pullLocals == <<dataLen, pc, batchSize, offset, allData, moreData,
                reqOffset, reqLimit, progressCalls, attempt, ingested,
                lastResponse>>

pullVars == <<sessionId, pullLocals>>

pushLocals == <<pushPc, operation, data, pushBatchSize, actualBatchSize,
                batches, results, batchIndex, pushProgress, submitted>>

sanVars == <<sanPc, sanInput, sanOutput>>

appVars == <<apiConfig, operationInProgress, calls, lastEvent,
             authsSinceInit, overlapped>>

exportVars == <<expPc, expObjects, expIndex, expResults, expProgress,
                expListed, expFetched, expFailure>>

selVars == <<pullObjectCombo, pushObjectCombo, fieldFetches>>

formVars == <<inputFileData, availableFields, columnMappings, lastCall, selVars>>

vars == <<pullVars, sanVars, pushLocals, appVars, exportVars, formVars>>

\* what pullData's own steps leave alone
OutsidePull == UNCHANGED <<sanVars, pushLocals, appVars, exportVars, formVars>>

(***************************************************************************)
(* Remote service: GET .../vobjects/{object}?fields=..&limit=l&offset=o    *)
(* answers with the records at positions o+1 .. o+l that exist.            *)
(***************************************************************************)
Page(o, l) ==
    [i \in 1..Max(0, Min(l, dataLen - o)) |-> o + i]

\* offset += step, tracked up to MaxOffset
CursorAdd(o, step) == Min(o + step, MaxOffset)

\* Math.floor(batchSize / 2)
smallerBatchSize == batchSize \div 2

\* faulty variant: the floor is compared with > instead of >=
CanRetry_StrictFloor == smallerBatchSize > MinRetryBatchSize

CanRetry == smallerBatchSize >= MinRetryBatchSize

(***************************************************************************)
(* pullData                                                                *)
(***************************************************************************)
\* while (moreData) { build url; fetch(...)   -- or fall out to return allData
LoopHead(md, off, limit) ==
    IF md
    THEN /\ pc' = "page"
         /\ reqOffset' = off
         /\ reqLimit' = limit
         /\ attempt' = 1
    ELSE /\ pc' = "done"
         /\ reqOffset' = NoRequest
         /\ reqLimit' = NoRequest
         /\ attempt' = 0

\* pullData(objectName, fields, batchSize, progressCallback) is called:
\* getSessionId returns the cached token, or starts the auth exchange.
PullCall ==
    /\ pc = "idle"
    /\ \E bs \in PageSizes : batchSize' = bs
    /\ offset' = 0
    /\ allData' = <<>>
    /\ moreData' = TRUE
    /\ progressCalls' = <<>>
    /\ ingested' = <<>>
    /\ IF sessionId # NoSession
       THEN LoopHead(TRUE, 0, batchSize')
       ELSE /\ pc' = "auth"
            /\ reqOffset' = NoRequest
            /\ reqLimit' = NoRequest
            /\ attempt' = 0
    /\ UNCHANGED <<sessionId, dataLen>>
    /\ lastResponse' = "none"
    /\ OutsidePull

\* the auth exchange succeeds: the token is cached and the loop starts
AuthOk ==
    /\ pc = "auth"
    /\ \E t \in Tokens : sessionId' = t
    /\ LoopHead(TRUE, 0, batchSize)
    /\ UNCHANGED <<dataLen, batchSize, offset, allData, moreData,
                   progressCalls, ingested>>
    /\ UNCHANGED lastResponse
    /\ OutsidePull

\* the auth exchange fails: getSessionId throws, pullData rethrows
AuthFail ==
    /\ pc = "auth"
    /\ pc' = "error"
    /\ UNCHANGED <<sessionId, dataLen, batchSize, offset, allData, moreData,
                   reqOffset, reqLimit, progressCalls, attempt, ingested>>
    /\ UNCHANGED lastResponse
    /\ OutsidePull

\* faulty variant: after a full page the cursor advances by half the page
PageOk_AdvanceHalf ==
    /\ pc = "page"
    /\ LET records == Page(reqOffset, reqLimit) IN
        /\ records # <<>>
        /\ allData' = allData \o records
        /\ offset' = CursorAdd(offset, smallerBatchSize)
        /\ progressCalls' = Append(progressCalls, Len(allData'))
        /\ ingested' = Append(ingested, <<reqOffset, reqLimit>>)
    /\ LoopHead(moreData, offset', batchSize)
    /\ UNCHANGED <<sessionId, dataLen, batchSize, moreData>>
    /\ lastResponse' = "ok"
    /\ OutsidePull

\* records.length > 0: clean, concat, offset += batchSize, progressCallback
PageOk ==
    /\ pc = "page"
    /\ LET records == Page(reqOffset, reqLimit) IN
        /\ records # <<>>
        /\ allData' = allData \o records
        /\ offset' = CursorAdd(offset, batchSize)
        /\ progressCalls' = Append(progressCalls, Len(allData'))
        /\ ingested' = Append(ingested, <<reqOffset, reqLimit>>)
    /\ LoopHead(moreData, offset', batchSize)
    /\ UNCHANGED <<sessionId, dataLen, batchSize, moreData>>
    /\ lastResponse' = "ok"
    /\ OutsidePull

\* !records || records.length === 0: moreData = false
PageEmpty ==
    /\ pc = "page"
    /\ \E missing \in BOOLEAN : missing \/ Page(reqOffset, reqLimit) = <<>>
    /\ moreData' = FALSE
    /\ LoopHead(FALSE, offset, batchSize)
    /\ UNCHANGED <<sessionId, dataLen, batchSize, offset, allData,
                   progressCalls, ingested>>
    /\ lastResponse' = "empty"
    /\ OutsidePull

\* catch (error) with smallerBatchSize >= 10: retry at the same offset
PageFailRetry ==
    /\ pc = "page"
    /\ CanRetry
    /\ pc' = "retry"
    /\ reqOffset' = offset
    /\ reqLimit' = smallerBatchSize
    /\ attempt' = attempt + 1
    /\ UNCHANGED <<sessionId, dataLen, batchSize, offset, allData, moreData,
                   progressCalls, ingested>>
    /\ lastResponse' = "fail"
    /\ OutsidePull

\* catch (error) with smallerBatchSize < 10: offset += batchSize
PageFailSkip ==
    /\ pc = "page"
    /\ ~CanRetry
    /\ offset' = CursorAdd(offset, batchSize)
    /\ LoopHead(moreData, offset', batchSize)
    /\ UNCHANGED <<sessionId, dataLen, batchSize, allData, moreData,
                   progressCalls, ingested>>
    /\ lastResponse' = "fail"
    /\ OutsidePull

\* faulty variant: the reduced size is carried over to the next page request
RetryOk_Sticky ==
    /\ pc = "retry"
    /\ LET retryRecords == Page(reqOffset, reqLimit) IN
        /\ retryRecords # <<>>
        /\ allData' = allData \o retryRecords
        /\ offset' = CursorAdd(offset, smallerBatchSize)
        /\ progressCalls' = Append(progressCalls, Len(allData'))
        /\ ingested' = Append(ingested, <<reqOffset, reqLimit>>)
    /\ LoopHead(moreData, offset', smallerBatchSize)
    /\ UNCHANGED <<sessionId, dataLen, batchSize, moreData>>
    /\ lastResponse' = "ok"
    /\ OutsidePull

\* faulty variant: the retried page is ingested without a progressCallback call
RetryOk_NoProgress ==
    /\ pc = "retry"
    /\ LET retryRecords == Page(reqOffset, reqLimit) IN
        /\ retryRecords # <<>>
        /\ allData' = allData \o retryRecords
        /\ offset' = CursorAdd(offset, smallerBatchSize)
        /\ ingested' = Append(ingested, <<reqOffset, reqLimit>>)
    /\ LoopHead(moreData, offset', batchSize)
    /\ UNCHANGED <<sessionId, dataLen, batchSize, moreData, progressCalls>>
    /\ lastResponse' = "ok"
    /\ OutsidePull

\* retryRecords.length > 0: clean, concat, offset += smallerBatchSize, callback
RetryOk ==
    /\ pc = "retry"
    /\ LET retryRecords == Page(reqOffset, reqLimit) IN
        /\ retryRecords # <<>>
        /\ allData' = allData \o retryRecords
        /\ offset' = CursorAdd(offset, smallerBatchSize)
        /\ progressCalls' = Append(progressCalls, Len(allData'))
        /\ ingested' = Append(ingested, <<reqOffset, reqLimit>>)
    /\ LoopHead(moreData, offset', batchSize)
    /\ UNCHANGED <<sessionId, dataLen, batchSize, moreData>>
    /\ lastResponse' = "ok"
    /\ OutsidePull

\* faulty variant: an empty retried page does not end the pagination
RetryEmpty_Continue ==
    /\ pc = "retry"
    /\ \E missing \in BOOLEAN : missing \/ Page(reqOffset, reqLimit) = <<>>
    /\ offset' = CursorAdd(offset, smallerBatchSize)
    /\ LoopHead(moreData, offset', batchSize)
    /\ UNCHANGED <<sessionId, dataLen, batchSize, allData, moreData,
                   progressCalls, ingested>>
    /\ lastResponse' = "empty"
    /\ OutsidePull

\* !retryRecords || retryRecords.length === 0: moreData = false
RetryEmpty ==
    /\ pc = "retry"
    /\ \E missing \in BOOLEAN : missing \/ Page(reqOffset, reqLimit) = <<>>
    /\ moreData' = FALSE
    /\ LoopHead(FALSE, offset, batchSize)
    /\ UNCHANGED <<sessionId, dataLen, batchSize, offset, allData,
                   progressCalls, ingested>>
    /\ lastResponse' = "empty"
    /\ OutsidePull

\* faulty variant: a failed retry is retried again at the same offset
RetryFail_RetryAgain ==
    /\ pc = "retry"
    /\ pc' = "retry"
    /\ attempt' = attempt + 1
    /\ UNCHANGED <<sessionId, dataLen, batchSize, offset, allData, moreData,
                   reqOffset, reqLimit, progressCalls, ingested>>
    /\ lastResponse' = "fail"
    /\ OutsidePull

\* faulty variant: a failed retry is not caught and reaches the outer catch
RetryFail_Throw ==
    /\ pc = "retry"
    /\ pc' = "error"
    /\ UNCHANGED <<sessionId, dataLen, batchSize, offset, allData, moreData,
                   reqOffset, reqLimit, progressCalls, attempt, ingested>>
    /\ lastResponse' = "fail"
    /\ OutsidePull

\* catch (retryError): offset += smallerBatchSize
RetryFail ==
    /\ pc = "retry"
    /\ offset' = CursorAdd(offset, smallerBatchSize)
    /\ LoopHead(moreData, offset', batchSize)
    /\ UNCHANGED <<sessionId, dataLen, batchSize, allData, moreData,
                   progressCalls, ingested>>
    /\ lastResponse' = "fail"
    /\ OutsidePull

\* the caller receives the result (return allData / throw error)
PullReturn ==
    /\ pc \in {"done", "error"}
    /\ pc' = "idle"
    /\ UNCHANGED <<sessionId, dataLen, batchSize, offset, allData, moreData,
                   reqOffset, reqLimit, progressCalls, attempt, ingested>>
    /\ UNCHANGED lastResponse
    /\ OutsidePull

PullInit ==
    /\ sessionId = NoSession
    /\ dataLen \in DataLens
    /\ pc = "idle"
    /\ batchSize = 0
    /\ offset = 0
    /\ allData = <<>>
    /\ moreData = TRUE
    /\ reqOffset = NoRequest
    /\ reqLimit = NoRequest
    /\ progressCalls = <<>>
    /\ attempt = 0
    /\ ingested = <<>>
    /\ lastResponse = "none"

(***************************************************************************)
(* Clean-up of a fetched field value (api.js:204-210, 248-254)             *)
(*   if (typeof record[key] === 'string')                                  *)
(*       record[key] = record[key].replace('[', '').replace(']', '');      *)
(* A value is [isString, chars]: a string is the sequence of its           *)
(* characters, any other value (null, number, ...) has isString = FALSE.   *)
(***************************************************************************)
Alphabet == {"[", "]", "A", "B", "C"}
Strings == UNION {[1..n -> Alphabet] : n \in 0..MaxStrLen}
NullValue == [isString |-> FALSE, chars |-> <<>>]
Values == {[isString |-> TRUE, chars |-> str] : str \in Strings} \cup {NullValue}

RECURSIVE ReplaceFirst(_, _)
\* str.replace(c, ''): a string pattern replaces its first occurrence only
ReplaceFirst(str, c) ==
    IF str = <<>> THEN <<>>
    ELSE IF Head(str) = c THEN Tail(str)
    ELSE <<Head(str)>> \o ReplaceFirst(Tail(str), c)

\* faulty variant: every bracket is removed (a global replace)
CleanString_StripAll(str) ==
    LET NotBracket(ch) == ch \notin {"[", "]"} IN SelectSeq(str, NotBracket)

\* str.replace('[', '').replace(']', '')
CleanString(str) == ReplaceFirst(ReplaceFirst(str, "["), "]")

CleanValue(v) ==
    IF v.isString THEN [v EXCEPT !.chars = CleanString(v.chars)] ELSE v

\* the forEach body applied to one record[key]
Clean ==
    /\ sanPc = "raw"
    /\ sanOutput' = CleanValue(sanInput)
    /\ sanPc' = "clean"
    /\ UNCHANGED <<sanInput, pullVars, pushLocals, appVars, exportVars, formVars>>

SanIdle ==
    /\ sanPc = "idle"
    /\ sanInput = NullValue
    /\ sanOutput = NullValue

SanInit ==
    /\ sanPc = "raw"
    /\ sanInput \in Values
    /\ sanOutput = sanInput

PullIdle == PullInit /\ dataLen = 0

(***************************************************************************)
(* pushData (api.js:294-389)                                               *)
(***************************************************************************)
Operations == {"insert", "update", "delete", "merge"}

\* response.status of a batch request: response.ok holds for 2xx
OkStatuses == {"200", "201"}
FailStatuses == {"400"}

\* validateBatchSize (app.js:235-247): the value left in the batch size
\* input after an input event
ValidateBatchSize(op, value) ==
    IF value < 1 THEN 1
    ELSE LET maxAllowed == IF op = "merge" THEN MergeBatchLimit
                                           ELSE UiMaxBatchSize
         IN IF value > maxAllowed THEN maxAllowed ELSE value

\* Inputs of a pushData call: operation, number of records, batch size typed
\* into the input, and whether validateBatchSize ran on it (it does not run
\* on a value loaded from the saved configuration).
SmallInputs ==
    [operation : Operations, count : 0..MaxRecords,
     typed : (0 - 1)..MaxSmallBatch, validated : BOOLEAN]
MergeInputs ==
    [operation : {"merge"},
     count : {MergeBatchLimit + 1, 2 * MergeBatchLimit + 1},
     typed : {MergeBatchLimit, MergeBatchLimit + 1, DefaultPushBatchSize},
     validated : BOOLEAN]
LargeInputs ==
    [operation : Operations \ {"merge"},
     count : {BatchLimit + 1},
     typed : {BatchLimit, BatchLimit + 1, UiMaxBatchSize, UiMaxBatchSize + 1},
     validated : BOOLEAN]
PushInputs == SmallInputs \cup MergeInputs \cup LargeInputs

\* faulty variant: the slice ends one record early
Slice_ShortByOne(arr, start, end) ==
    LET len == Len(arr)
        from == IF start < 0 THEN Max(len + start, 0) ELSE Min(start, len)
        to == IF end - 1 < 0 THEN Max(len + end - 1, 0) ELSE Min(end - 1, len)
    IN IF from < to THEN SubSeq(arr, from + 1, to) ELSE <<>>

\* array.slice(start, end)
Slice(arr, start, end) ==
    LET len == Len(arr)
        from == IF start < 0 THEN Max(len + start, 0) ELSE Min(start, len)
        to == IF end < 0 THEN Max(len + end, 0) ELSE Min(end, len)
    IN IF from < to THEN SubSeq(arr, from + 1, to) ELSE <<>>

\* faulty variant: merge is clamped like the other operations
ActualBatchSize_NoMergeCap(op, requested) == Min(requested, BatchLimit)

\* operation === 'merge' ? Math.min(batchSize, 10) : Math.min(batchSize, 500)
ActualBatchSize(op, requested) ==
    IF op = "merge" THEN Min(requested, MergeBatchLimit)
                    ELSE Min(requested, BatchLimit)

RECURSIVE BatchesFrom(_, _, _)
\* for (let i = from; i < data.length; i += size) batches.push(data.slice(i, i + size))
\* (size >= 1)
BatchesFrom(arr, from, size) ==
    IF from < Len(arr)
    THEN <<Slice(arr, from, from + size)>> \o BatchesFrom(arr, from + size, size)
    ELSE <<>>

\* the preparation loop ends iff it is never entered or i grows
PreparationEnds(arr, size) == Len(arr) = 0 \/ size >= 1

\* api.js:300-317: clamp, prepare the batches, results, send the first batch
PushPrepare(op, arr, requested) ==
    LET size == ActualBatchSize(op, requested) IN
    /\ actualBatchSize' = size
    /\ pushProgress' = <<>>
    /\ batchIndex' = 0
    /\ IF PreparationEnds(arr, size)
       THEN LET prepared == IF Len(arr) = 0 THEN <<>>
                            ELSE BatchesFrom(arr, 0, size) IN
            /\ batches' = prepared
            /\ results' = [total |-> Len(prepared), success |-> 0,
                           failures |-> 0, logs |-> <<>>]
            /\ IF Len(prepared) > 0
               THEN pushPc' = "batch" /\ submitted' = <<1>>
               ELSE pushPc' = "done" /\ submitted' = <<>>
       ELSE \* i never passes data.length: the for loop does not end
            /\ pushPc' = "preparing"
            /\ batches' = <<>>
            /\ results' = [total |-> 0, success |-> 0, failures |-> 0,
                           logs |-> <<>>]
            /\ submitted' = <<>>

OutsidePush == UNCHANGED <<pullLocals, sanVars, appVars, exportVars, formVars>>

\* pushData(objectName, data, operation, batchSize, progressCallback) is called
PushCall ==
    /\ pushPc = "idle"
    /\ \E in \in PushInputs :
        LET requested == IF in.validated
                         THEN ValidateBatchSize(in.operation, in.typed)
                         ELSE in.typed
            arr == [r \in 1..in.count |-> r]
        IN /\ operation' = in.operation
           /\ data' = arr
           /\ pushBatchSize' = requested
           /\ IF sessionId # NoSession
              THEN PushPrepare(in.operation, arr, requested)
              ELSE /\ pushPc' = "auth"
                   /\ actualBatchSize' = 0
                   /\ batches' = <<>>
                   /\ results' = [total |-> 0, success |-> 0, failures |-> 0,
                                  logs |-> <<>>]
                   /\ batchIndex' = 0
                   /\ pushProgress' = <<>>
                   /\ submitted' = <<>>
    /\ UNCHANGED sessionId
    /\ OutsidePush

\* the auth exchange succeeds: the token is cached and the batches are built
PushAuthOk ==
    /\ pushPc = "auth"
    /\ \E t \in Tokens : sessionId' = t
    /\ PushPrepare(operation, data, pushBatchSize)
    /\ UNCHANGED <<operation, data, pushBatchSize>>
    /\ OutsidePush

\* the auth exchange fails: getSessionId throws, pushData rethrows
PushAuthFail ==
    /\ pushPc = "auth"
    /\ pushPc' = "error"
    /\ UNCHANGED <<sessionId, operation, data, pushBatchSize, actualBatchSize,
                   batches, results, batchIndex, pushProgress, submitted>>
    /\ OutsidePush

\* api.js:378-382 and the loop head: progressCallback(i + 1, batches.length),
\* i++, then the next batch is sent or results is returned
AfterBatch ==
    /\ pushProgress' = Append(pushProgress, <<batchIndex + 1, Len(batches)>>)
    /\ batchIndex' = batchIndex + 1
    /\ IF batchIndex + 1 < Len(batches)
       THEN pushPc' = "batch" /\ submitted' = Append(submitted, batchIndex + 2)
       ELSE pushPc' = "done" /\ UNCHANGED submitted
    /\ UNCHANGED <<sessionId, operation, data, pushBatchSize, actualBatchSize,
                   batches>>
    /\ OutsidePush

\* response.ok: results.success++, log entry
BatchOk ==
    /\ pushPc = "batch"
    /\ \E st \in OkStatuses :
        results' = [results EXCEPT
            !.success = @ + 1,
            !.logs = Append(@, [batch |-> batchIndex + 1, status |-> st,
                                message |-> "processed successfully"])]
    /\ AfterBatch

\* faulty variant: a rejected batch ends the processing loop
BatchRejected_Abort ==
    /\ pushPc = "batch"
    /\ \E st \in FailStatuses :
        results' = [results EXCEPT
            !.failures = @ + 1,
            !.logs = Append(@, [batch |-> batchIndex + 1, status |-> st,
                                message |-> "failed"])]
    /\ pushProgress' = Append(pushProgress, <<batchIndex + 1, Len(batches)>>)
    /\ batchIndex' = batchIndex + 1
    /\ pushPc' = "done"
    /\ UNCHANGED <<sessionId, operation, data, pushBatchSize, actualBatchSize,
                   batches, submitted>>
    /\ OutsidePush

\* faulty variant: the log entry of a rejected batch carries i instead of i + 1
BatchRejected_ZeroBased ==
    /\ pushPc = "batch"
    /\ \E st \in FailStatuses :
        results' = [results EXCEPT
            !.failures = @ + 1,
            !.logs = Append(@, [batch |-> batchIndex, status |-> st,
                                message |-> "failed"])]
    /\ AfterBatch

\* !response.ok: results.failures++, log entry
BatchRejected ==
    /\ pushPc = "batch"
    /\ \E st \in FailStatuses :
        results' = [results EXCEPT
            !.failures = @ + 1,
            !.logs = Append(@, [batch |-> batchIndex + 1, status |-> st,
                                message |-> "failed"])]
    /\ AfterBatch

\* faulty variant: the catch block logs the batch without counting it
BatchError_NotCounted ==
    /\ pushPc = "batch"
    /\ results' = [results EXCEPT
            !.logs = Append(@, [batch |-> batchIndex + 1, status |-> "Error",
                                message |-> "failed"])]
    /\ AfterBatch

\* faulty variant: progressCallback is skipped when the request throws
BatchError_NoProgress ==
    /\ pushPc = "batch"
    /\ results' = [results EXCEPT
            !.failures = @ + 1,
            !.logs = Append(@, [batch |-> batchIndex + 1, status |-> "Error",
                                message |-> "failed"])]
    /\ batchIndex' = batchIndex + 1
    /\ IF batchIndex + 1 < Len(batches)
       THEN pushPc' = "batch" /\ submitted' = Append(submitted, batchIndex + 2)
       ELSE pushPc' = "done" /\ UNCHANGED submitted
    /\ UNCHANGED <<sessionId, operation, data, pushBatchSize, actualBatchSize,
                   batches, pushProgress>>
    /\ OutsidePush

\* catch (error): results.failures++, log entry with status 'Error'
BatchError ==
    /\ pushPc = "batch"
    /\ results' = [results EXCEPT
            !.failures = @ + 1,
            !.logs = Append(@, [batch |-> batchIndex + 1, status |-> "Error",
                                message |-> "failed"])]
    /\ AfterBatch

\* the caller receives the result (return results / throw error) and the
\* locals of the call go out of scope
PushReturn ==
    /\ pushPc \in {"done", "error"}
    /\ pushPc' = "idle"
    /\ operation' = "insert"
    /\ data' = <<>>
    /\ pushBatchSize' = 0
    /\ actualBatchSize' = 0
    /\ batches' = <<>>
    /\ results' = [total |-> 0, success |-> 0, failures |-> 0, logs |-> <<>>]
    /\ batchIndex' = 0
    /\ pushProgress' = <<>>
    /\ submitted' = <<>>
    /\ UNCHANGED sessionId
    /\ OutsidePush

PushInit ==
    /\ pushPc = "idle"
    /\ operation = "insert"
    /\ data = <<>>
    /\ pushBatchSize = 0
    /\ actualBatchSize = 0
    /\ batches = <<>>
    /\ results = [total |-> 0, success |-> 0, failures |-> 0, logs |-> <<>>]
    /\ batchIndex = 0
    /\ pushProgress = <<>>
    /\ submitted = <<>>

(***************************************************************************)
(* exportMetadata (api.js:396-470)                                         *)
(***************************************************************************)
\* UTF-16 code units of the characters of the modelled names
CodeUnit(ch) == CASE ch = "B" -> 66 [] ch = "a" -> 97 [] OTHER -> 98

RECURSIVE Before(_, _)
\* s < t as Array.prototype.sort compares strings without a comparator
Before(s, t) ==
    IF t = <<>> THEN FALSE
    ELSE IF s = <<>> THEN TRUE
    ELSE IF Head(s) # Head(t) THEN CodeUnit(Head(s)) < CodeUnit(Head(t))
    ELSE Before(Tail(s), Tail(t))

\* the object names and the field names the remote service can answer with
ObjectNames == {<<"B">>, <<"a">>}
FieldNames == {<<"a">>, <<"a", "B">>}
NameLists(names, n) == UNION {[1..k -> names] : k \in 0..n}

\* faulty variant: the names stay in the order of the answer
Sort_AsReceived(names) == names

\* names.sort() (api.js:415, 436)
Sort(names) == SortSeq(names, Before)

\* fields.forEach(fieldName => results.push(...)) of object i (api.js:439-444)
PairsOf(i, objectName, fields) ==
    [k \in 1..Len(fields) |->
        [object |-> objectName, field |-> fields[k], index |-> i]]

\* what exportMetadata's own steps leave alone
OutsideExport == UNCHANGED <<pullVars, sanVars, pushLocals, appVars, formVars>>

ExportIdle ==
    /\ expPc = "idle"
    /\ expObjects = <<>>
    /\ expIndex = 0
    /\ expResults = <<>>
    /\ expProgress = <<>>
    /\ expListed = <<>>
    /\ expFetched = <<>>
    /\ expFailure = "none"

\* exportMetadata(progressCallback) up to await this.getSessionId() (api.js:398)
ExportCall ==
    /\ expPc = "idle"
    /\ pushPc = "idle"
    /\ expPc' = "auth"
    /\ UNCHANGED <<expObjects, expIndex, expResults, expProgress, expListed,
                   expFetched, expFailure>>
    /\ OutsideExport

\* getSessionId returns; the object list is requested (api.js:398-408)
ExportAuthOk ==
    /\ expPc = "auth"
    /\ expPc' = "list"
    /\ UNCHANGED <<expObjects, expIndex, expResults, expProgress, expListed,
                   expFetched, expFailure>>
    /\ OutsideExport

\* getSessionId throws; the outer catch rethrows (api.js:466-469)
ExportAuthFail ==
    /\ expPc = "auth"
    /\ expPc' = "error"
    /\ expFailure' = "auth"
    /\ UNCHANGED <<expObjects, expIndex, expResults, expProgress, expListed,
                   expFetched>>
    /\ OutsideExport

\* the object list request fails: fetch rejects, the status is not ok or the
\* body has no objects (api.js:404-415); the outer catch rethrows
ExportListFail ==
    /\ expPc = "list"
    /\ expPc' = "error"
    /\ expFailure' = "list"
    /\ UNCHANGED <<expObjects, expIndex, expResults, expProgress, expListed,
                   expFetched>>
    /\ OutsideExport

\* the object list arrives; the loop starts or, without objects, the call
\* returns (api.js:414-421, 465)
ExportListOk ==
    \E names \in NameLists(ObjectNames, MaxObjects) :
        /\ expPc = "list"
        /\ expListed' = names
        /\ expObjects' = Sort(names)
        /\ expPc' = IF names = <<>> THEN "done" ELSE "fields"
        /\ UNCHANGED <<expIndex, expResults, expProgress, expFetched, expFailure>>
        /\ OutsideExport

\* faulty variant: a failed object ends the loop without a progress call
ExportFieldsFail_Stop ==
    \E why \in {"status", "exception", "noFields"} :
        /\ expPc = "fields"
        /\ expFetched' = Append(expFetched, [ok |-> FALSE, fields |-> <<>>, why |-> why])
        /\ expIndex' = expIndex + 1
        /\ expPc' = "done"
        /\ UNCHANGED <<expObjects, expResults, expProgress, expListed, expFailure>>
        /\ OutsideExport

\* faulty variant: a failed object makes the call throw
ExportFieldsFail_Throw ==
    \E why \in {"status", "exception", "noFields"} :
        /\ expPc = "fields"
        /\ expFetched' = Append(expFetched, [ok |-> FALSE, fields |-> <<>>, why |-> why])
        /\ expPc' = "error"
        /\ UNCHANGED <<expObjects, expIndex, expResults, expProgress, expListed,
                       expFailure>>
        /\ OutsideExport

\* the field request of objects[i] fails: the status is not ok, fetch or
\* json() throws, or the body has no object.fields (api.js:433-457); the
\* progress callback is called and the loop goes on (api.js:459-463)
ExportFieldsFail ==
    \E why \in {"status", "exception", "noFields"} :
        /\ expPc = "fields"
        /\ expFetched' = Append(expFetched, [ok |-> FALSE, fields |-> <<>>, why |-> why])
        /\ expProgress' = Append(expProgress, <<expIndex + 1, Len(expObjects)>>)
        /\ expIndex' = expIndex + 1
        /\ expPc' = IF expIndex' < Len(expObjects) THEN "fields" ELSE "done"
        /\ UNCHANGED <<expObjects, expResults, expListed, expFailure>>
        /\ OutsideExport

\* the fields of objects[i] arrive and are added in sorted order
\* (api.js:433-446, 459-463)
ExportFieldsOk ==
    \E names \in NameLists(FieldNames, MaxFieldsPerObject) :
        /\ expPc = "fields"
        /\ expFetched' = Append(expFetched, [ok |-> TRUE, fields |-> names, why |-> "none"])
        /\ expResults' = expResults \o
                PairsOf(expIndex + 1, expObjects[expIndex + 1], Sort(names))
        /\ expProgress' = Append(expProgress, <<expIndex + 1, Len(expObjects)>>)
        /\ expIndex' = expIndex + 1
        /\ expPc' = IF expIndex' < Len(expObjects) THEN "fields" ELSE "done"
        /\ UNCHANGED <<expObjects, expListed, expFailure>>
        /\ OutsideExport

\* the caller has the result or the error; the locals are gone
ExportReturn ==
    /\ expPc \in {"done", "error"}
    /\ expPc' = "idle"
    /\ expObjects' = <<>>
    /\ expIndex' = 0
    /\ expResults' = <<>>
    /\ expProgress' = <<>>
    /\ expListed' = <<>>
    /\ expFetched' = <<>>
    /\ expFailure' = "none"
    /\ OutsideExport

(***************************************************************************)
(* The column mapping of the push form (app.js:44-51, 486-488, 511-558).   *)
(* A name is the sequence of its characters.  An object used as a map      *)
(* (columnMappings, a record) is the sequence of its key/value pairs in    *)
(* insertion order.                                                        *)
(***************************************************************************)
NameChars == {"a", "A", "_", " "}
ShortNames == UNION {[1..n -> NameChars] : n \in 0..MaxNameLen}

\* the names of the documented example and a property name every object inherits
Account_Name == <<"A", "c", "c", "o", "u", "n", "t", "_", "N", "a", "m", "e">>
AccountName == <<"A", "c", "c", "o", "u", "n", "t", " ", "N", "a", "m", "e">>
Email == <<"E", "m", "a", "i", "l">>
email == <<"e", "m", "a", "i", "l">>
constructor == <<"c", "o", "n", "s", "t", "r", "u", "c", "t", "o", "r">>

\* what a lookup gives for a key the object does not have
Undefined == <<"undefined">>
\* Object.prototype.constructor, what {}["constructor"] gives
InheritedValue == <<"function Object">>

ToLowerCase(str) ==
    [k \in 1..Len(str) |->
        CASE str[k] = "A" -> "a" [] str[k] = "N" -> "n" [] str[k] = "E" -> "e"
          [] OTHER -> str[k]]

RECURSIVE Replace(_, _, _)
\* str.replace(c, d): a string pattern replaces its first occurrence only
Replace(str, c, d) ==
    IF str = <<>> THEN <<>>
    ELSE IF Head(str) = c THEN <<d>> \o Tail(str)
    ELSE <<Head(str)>> \o Replace(Tail(str), c, d)

\* if (value): the empty string and undefined are falsy
Truthy(value) == value \notin {<<>>, Undefined}

Keys(object) == {object[k].key : k \in 1..Len(object)}

\* object[key], for an object made by {} and assignments
Get(object, key) ==
    IF \E k \in 1..Len(object) : object[k].key = key
    THEN object[CHOOSE k \in 1..Len(object) : object[k].key = key].value
    ELSE IF key = constructor THEN InheritedValue
    ELSE Undefined

\* object[key] = value
Put(object, key, value) ==
    IF key \in Keys(object)
    THEN [k \in 1..Len(object) |->
            IF object[k].key = key THEN [key |-> key, value |-> value]
            ELSE object[k]]
    ELSE Append(object, [key |-> key, value |-> value])

RECURSIVE VaultFieldsLower(_)
\* vaultFields.forEach(field => vaultFieldsLower[field.toLowerCase()] = field)
VaultFieldsLower(vaultFields) ==
    IF vaultFields = <<>> THEN <<>>
    ELSE LET n == Len(vaultFields)
         IN  Put(VaultFieldsLower(SubSeq(vaultFields, 1, n - 1)),
                 ToLowerCase(vaultFields[n]), vaultFields[n])

\* the if / else if chain of autoMapColumns for one column (app.js:530-545):
\* the field the column is mapped to, Undefined if no branch is taken
MatchFor(column, vaultFields) ==
    LET lower == VaultFieldsLower(vaultFields)
        asIs == Get(lower, ToLowerCase(column))
        spaced == Get(lower, ToLowerCase(Replace(column, "_", " ")))
        scored == Get(lower, ToLowerCase(Replace(column, " ", "_")))
    IN  IF \E k \in 1..Len(vaultFields) : vaultFields[k] = column THEN column
        ELSE IF Truthy(asIs) THEN asIs
        ELSE IF Truthy(spaced) THEN spaced
        ELSE IF Truthy(scored) THEN scored
        ELSE Undefined

RECURSIVE AutoMapped(_, _)
\* clearColumnMappings() and columns.forEach(...) (app.js:518-546)
AutoMapped(columns, vaultFields) ==
    IF columns = <<>> THEN <<>>
    ELSE LET n == Len(columns)
             before == AutoMapped(SubSeq(columns, 1, n - 1), vaultFields)
             field == MatchFor(columns[n], vaultFields)
         IN  IF field = Undefined THEN before
             ELSE Put(before, columns[n], field)

\* AppState.inputFileData: null, or the { columns, data } of the file read
NoFile == [loaded |-> FALSE, columns |-> <<>>, data |-> <<>>]
FileWith(columns, rows) == [loaded |-> TRUE, columns |-> columns, data |-> rows]
File(columns) == FileWith(columns, <<>>)

\* the value of an object dropdown with nothing selected
NoObject == ""
\* the objects fetchVaultObjects has put into the dropdowns
Objects == {"X", "Y", "Z"}
\* the field names the remote service lists for an object; it lists none
\* for Z
FieldsOf(objectName) ==
    CASE objectName = "X" -> <<<<"a">>>>
      [] objectName = "Y" -> <<<<"A">>>>
      [] OTHER -> <<>>

NoForm == [object |-> NoObject, target |-> FALSE, crud |-> "none"]

\* history: the handler that ran last, the form it read, the VeevaAPI
\* operation it went on to call and the records it passed
Called(handler, form, called, records) ==
    [handler |-> handler, form |-> form, called |-> called, records |-> records]

\* what the handlers of the form leave alone
OutsideForm == UNCHANGED <<pullVars, sanVars, pushLocals, appVars, exportVars>>

\* no object selected, no selection awaiting its fields
SelIdle ==
    /\ pullObjectCombo = NoObject
    /\ pushObjectCombo = NoObject
    /\ fieldFetches = {}

FormIdle ==
    /\ SelIdle
    /\ inputFileData = NoFile
    /\ availableFields = <<>>
    /\ columnMappings = <<>>
    /\ lastCall = Called("none", NoForm, "none", <<>>)

\* autoMapColumns (app.js:511-552)
AutoMapColumns ==
    /\ IF ~inputFileData.loaded \/ availableFields = <<>>
       THEN UNCHANGED columnMappings
       ELSE columnMappings' = AutoMapped(inputFileData.columns, availableFields)
    /\ lastCall' = Called("autoMapColumns", NoForm, "none", <<>>)
    /\ UNCHANGED <<inputFileData, availableFields, selVars>>
    /\ OutsideForm

\* the option the select of a column shows (app.js:480-483): the mapped
\* field if it is among the options, else '- Select Field -'
Shown(column) ==
    LET mapped == Get(columnMappings, column)
    IN  IF \E i \in 1..Len(availableFields) : availableFields[i] = mapped
        THEN mapped
        ELSE <<>>

\* the change handler of a select of the mapping table (app.js:456-488): the
\* options are '' and the available fields
SelectMapping ==
    \E k \in 1..Len(inputFileData.columns),
       field \in {<<>>} \cup {availableFields[i] : i \in 1..Len(availableFields)} :
        \* a change event: the option chosen is not the one the select shows
        /\ field # Shown(inputFileData.columns[k])
        /\ columnMappings' = Put(columnMappings, inputFileData.columns[k], field)
        /\ lastCall' = Called("select", NoForm, "none", <<>>)
        /\ UNCHANGED <<inputFileData, availableFields, selVars>>
        /\ OutsideForm

\* clearMappings (app.js:556-560)
ClearMappings ==
    /\ columnMappings' = <<>>
    /\ lastCall' = Called("clearMappings", NoForm, "none", <<>>)
    /\ UNCHANGED <<inputFileData, availableFields, selVars>>
    /\ OutsideForm

\* the headers of the files the user uploads
UploadedColumns == {<<<<"A">>>>, <<<<"_">>>>}

\* handleFileUpload after FileUtils.readFile has returned (app.js:404-440);
\* crudOperation is the radio button checked at that time
HandleFileUpload ==
    \E columns \in UploadedColumns, crudOperation \in Operations :
        /\ inputFileData' = File(columns)
        /\ columnMappings' =
              IF crudOperation # "merge" /\ availableFields # <<>>
              THEN AutoMapped(columns, availableFields)
              ELSE columnMappings
        /\ lastCall' = Called("handleFileUpload", NoForm, "none", <<>>)
        /\ UNCHANGED <<availableFields, selVars>>
        /\ OutsideForm

\* an onObjectSelected invocation: the form it was started in (const
\* operation) and the object it asked the fields of (const selectedObject)
FieldFetch(form, objectName) == [form |-> form, object |-> objectName]

\* the change event of an object dropdown: onObjectSelected up to its await
\* of fetchObjectFields (app.js:357-373)
OnObjectSelected ==
    \E form \in {"pull", "push"}, objectName \in Objects \cup {NoObject} :
        /\ Cardinality(fieldFetches) < MaxSelections
        /\ IF form = "pull"
           THEN pullObjectCombo' = objectName /\ UNCHANGED pushObjectCombo
           ELSE pushObjectCombo' = objectName /\ UNCHANGED pullObjectCombo
        /\ fieldFetches' = IF objectName = NoObject THEN fieldFetches
                           ELSE fieldFetches \cup {FieldFetch(form, objectName)}
        /\ lastCall' = Called("onObjectSelected", NoForm, "none", <<>>)
        /\ UNCHANGED <<inputFileData, availableFields, columnMappings>>
        /\ OutsideForm

\* fetchObjectFields answers an onObjectSelected invocation, which stores the
\* fields and, in the push form with a file loaded, calls autoMapColumns
\* (app.js:373-383)
FieldsFetched ==
    \E f \in fieldFetches :
        LET fields == FieldsOf(f.object) IN
        /\ fieldFetches' = fieldFetches \ {f}
        /\ availableFields' = fields
        /\ columnMappings' =
              IF f.form = "push" /\ inputFileData.loaded /\ fields # <<>>
              THEN AutoMapped(inputFileData.columns, fields)
              ELSE columnMappings
        /\ lastCall' = Called("onObjectSelected", NoForm, "none", <<>>)
        /\ UNCHANGED <<inputFileData, pullObjectCombo, pushObjectCombo>>
        /\ OutsideForm

\* fetchObjectFields throws: onObjectSelected only reports it (app.js:390-394)
FieldsFetchFailed ==
    \E f \in fieldFetches :
        /\ fieldFetches' = fieldFetches \ {f}
        /\ lastCall' = Called("onObjectSelected", NoForm, "none", <<>>)
        /\ UNCHANGED <<inputFileData, availableFields, columnMappings,
                       pullObjectCombo, pushObjectCombo>>
        /\ OutsideForm

(***************************************************************************)
(* executePullOperation, executePushOperation and executeMetadataOperation *)
(* (app.js:615-905) up to the VeevaAPI operation they call.  What the      *)
(* operation then does is modelled above; lastCall keeps which operation   *)
(* was called and the records handed to it.                                *)
(***************************************************************************)
\* a value of a row of the loaded file: its JavaScript type and its text
Cell(kind, text) == [kind |-> kind, text |-> text]
NullCell == Cell("null", <<>>)
UndefinedCell == Cell("undefined", <<>>)
FunctionCell == Cell("function", InheritedValue)
CellKinds == {"number", "boolean", "date", "string"}
CellValues ==
    {NullCell, Cell("string", <<>>)} \cup {Cell(kind, <<"1">>) : kind \in CellKinds}

\* String(value)
String(value) ==
    CASE value.kind = "null" -> Cell("string", <<"null">>)
      [] value.kind = "undefined" -> Cell("string", Undefined)
      [] OTHER -> Cell("string", value.text)

\* faulty variant: the value is handed on as the file holds it
PrepareValue_Raw(value) == value

\* row[key] === null ? '' : String(row[key]) (app.js:768, 779)
PrepareValue(value) ==
    IF value = NullCell THEN Cell("string", <<>>) ELSE String(value)

\* row[key], for a row object of the file
ValueAt(row, key) ==
    IF key \in Keys(row) THEN Get(row, key)
    ELSE IF key = constructor THEN FunctionCell
    ELSE UndefinedCell

\* cleanRow of the merge branch (app.js:765-771)
CleanRow(row) ==
    [k \in 1..Len(row) |->
        [key |-> row[k].key, value |-> PrepareValue(row[k].value)]]

RECURSIVE MappedRow(_, _)
\* mappedRow of the mapping branch (app.js:774-783), over the entries of
\* columnMappings in key order
MappedRow(row, mappings) ==
    IF mappings = <<>> THEN <<>>
    ELSE LET n == Len(mappings)
             before == MappedRow(row, SubSeq(mappings, 1, n - 1))
             fileCol == mappings[n].key
             vaultField == mappings[n].value
         IN  IF Truthy(vaultField)
             THEN Put(before, vaultField, PrepareValue(ValueAt(row, fileCol)))
             ELSE before

\* preparedData (app.js:760-785)
PreparedData(crudOperation, rows, mappings) ==
    [r \in 1..Len(rows) |->
        IF crudOperation = "merge" THEN CleanRow(rows[r])
        ELSE MappedRow(rows[r], mappings)]

\* the handlers run one at a time (AppState.operationInProgress, app.js:567)
\* and this one awaits the fields of its object
AwaitsFields ==
    /\ lastCall.handler = "executePullOperation"
    /\ lastCall.called = "fetchObjectFields"

\* executePullOperation up to its first await (app.js:615-658)
ExecutePullOperation ==
    \E outputFile \in BOOLEAN :
        /\ ~AwaitsFields
        /\ lastCall' = Called("executePullOperation",
                [object |-> pullObjectCombo, target |-> outputFile, crud |-> "none"],
                IF pullObjectCombo = NoObject \/ ~outputFile THEN "none"
                ELSE IF availableFields = <<>> THEN "fetchObjectFields"
                ELSE "pullData",
                \* const fields = AppState.availableFields (app.js:650)
                availableFields)
        /\ UNCHANGED <<inputFileData, availableFields, columnMappings, selVars>>
        /\ OutsideForm

\* fetchObjectFields has returned: setAvailableFields, then pullData
\* (app.js:640-658)
PullFieldsFetched ==
    LET fields == FieldsOf(lastCall.form.object) IN
        /\ AwaitsFields
        /\ availableFields' = fields
        /\ lastCall' = Called("executePullOperation", lastCall.form, "pullData",
                             fields)
        /\ UNCHANGED <<inputFileData, columnMappings, selVars>>
        /\ OutsideForm

\* fetchObjectFields has thrown: the handler rethrows to executeOperation
\* (app.js:600-604, 715-721)
PullFieldsFailed ==
    /\ AwaitsFields
    /\ lastCall' = Called("executePullOperation", lastCall.form, "none", <<>>)
    /\ UNCHANGED <<inputFileData, availableFields, columnMappings, selVars>>
    /\ OutsideForm

\* executePushOperation up to its await of pushData (app.js:728-805)
ExecutePushOperation ==
    \E crudOperation \in Operations :
        /\ ~AwaitsFields
        /\ LET stops == \/ pushObjectCombo = NoObject
                        \/ ~inputFileData.loaded
                        \/ crudOperation # "merge" /\ Keys(columnMappings) = {}
           IN  lastCall' = Called("executePushOperation",
                    [object |-> pushObjectCombo, target |-> FALSE,
                     crud |-> crudOperation],
                    IF stops THEN "none" ELSE "pushData",
                    IF stops THEN <<>>
                    ELSE PreparedData(crudOperation, inputFileData.data,
                                      columnMappings))
        /\ UNCHANGED <<inputFileData, availableFields, columnMappings, selVars>>
        /\ OutsideForm

\* executeMetadataOperation up to its await of exportMetadata (app.js:857-890)
ExecuteMetadataOperation ==
    \E metadataFile \in BOOLEAN :
        /\ ~AwaitsFields
        /\ lastCall' = Called("executeMetadataOperation",
                [object |-> NoObject, target |-> metadataFile, crud |-> "none"],
                IF ~metadataFile THEN "none" ELSE "exportMetadata",
                <<>>)
        /\ UNCHANGED <<inputFileData, availableFields, columnMappings, selVars>>
        /\ OutsideForm

(***************************************************************************)
(* VeevaAPI session handling (api.js:32-77) under the handlers of app.js   *)
(* (app.js:252-399, 566-610).  Every handler invocation is a call that     *)
(* runs up to its next await in one step; the calls that await a response  *)
(* are kept in the bag calls.  A VeevaAPI operation is reduced here to the *)
(* requests it issues; what it does with the answers is modelled above.    *)
(***************************************************************************)
\* the endpoint/credential triples the form can hold
Configs == {"vault-A", "vault-B"}
\* apiUrl, username, password of the constructor (api.js:8-10)
NoConfig == "none"

\* the token the service of a configuration issues (data.sessionId)
TokenOf(cfg) == IF cfg = "vault-A" THEN "session-A" ELSE "session-B"

\* the status of a refused authentication exchange (response.status)
RefusedStatuses == {"401"}
\* the body of a refused exchange: JSON with message, JSON without, not JSON
ErrorBodies == {"message", "noMessage", "notJson"}

NoError == [name |-> "none", status |-> "none", message |-> "none"]

\* fetch itself rejects (api.js:58): no response, no status
NetworkError == [name |-> "TypeError", status |-> "none", message |-> "none"]

\* the error of a refused exchange (api.js:65-68): response.json() throws on
\* a body that is not JSON, before the Error with the status is built
AuthError(status, body) ==
    IF body = "notJson"
    THEN [name |-> "SyntaxError", status |-> "none", message |-> "none"]
    ELSE [name |-> "Error", status |-> status,
          message |-> IF body = "message" THEN "remote message"
                      ELSE "No details available"]

\* how an exchange can fail, with the error getSessionId throws
NoFailure == [status |-> "none", body |-> "none", error |-> NoError]

AuthFailures ==
    {[status |-> "none", body |-> "none", error |-> NetworkError]} \cup
    {[status |-> st, body |-> b, error |-> AuthError(st, b)] :
        st \in RefusedStatuses, b \in ErrorBodies}

ApiOperations == {"testConnection", "fetchObjects", "fetchObjectFields",
                  "pullData", "pushData", "exportMetadata"}

\* a call of a VeevaAPI operation made by a handler
\*   stage      "start" | "auth" | "list" | "data" | "returned" | "threw"
\*   authConfig the triple the pending authentication request was built from
\*   token      const sessionId of the operation (api.js:175, 296, 398)
\*   left       requests the operation may still issue
\*   next       the operation the handler calls after this one returns
\*   exec       the handler is executeOperation
NewCall(op, nxt, exec, left) ==
    [op |-> op, stage |-> "start", authConfig |-> NoConfig,
     token |-> NoSession, left |-> left, next |-> nxt, exec |-> exec]

Finished(c) == c.stage \in {"returned", "threw"}

\* the operation after getSessionId has returned tok: its first request
WithToken(c, tok) ==
    CASE c.op = "testConnection" ->
            [c EXCEPT !.stage = "returned", !.token = tok]
      [] c.op = "exportMetadata" ->
            [c EXCEPT !.stage = "list", !.token = tok]
      [] c.op = "pushData" /\ c.left = 0 ->
            [c EXCEPT !.stage = "returned", !.token = tok]
      [] OTHER ->
            [c EXCEPT !.stage = "data", !.token = tok, !.left = c.left - 1]

\* faulty variant: the cached token is never used
CacheHit_Never(sid) == FALSE

\* if (this.sessionId) (api.js:47)
CacheHit(sid) == sid # NoSession

\* getSessionId up to its return or its await of the exchange (api.js:44-58)
GetSessionId(c, sid, cfg) ==
    IF CacheHit(sid) THEN WithToken(c, sid)
    ELSE [c EXCEPT !.stage = "auth", !.authConfig = cfg]

PendingAuth(bag) == \E c \in BagToSet(bag) : c.stage = "auth"

InFlight == BagCardinality(calls)

NoEvent ==
    [kind |-> "none", op |-> "none", outcome |-> "none", requested |-> FALSE,
     authFailure |-> NoFailure, same |-> FALSE, hadToken |-> FALSE]

\* history: VeevaAPI.init was given cfg
InitEvent(cfg) ==
    [NoEvent EXCEPT !.kind = "init", !.same = (cfg = apiConfig),
                    !.hadToken = (sessionId # NoSession)]

\* history: the operation of call old ended as new, after the failure fail of
\* its authentication exchange if there was one
DoneEvent(old, new, fail) ==
    [NoEvent EXCEPT !.kind = "done", !.op = new.op, !.outcome = new.stage,
                    !.requested = (old.stage \in {"list", "data"}),
                    !.authFailure = fail]

\* two authentication exchanges pending together
Overlap(bag) ==
    \E c \in BagToSet(bag) :
        c.stage = "auth" /\ PendingAuth(bag (-) SetToBag({c}))

\* what the handlers and VeevaAPI leave alone
OutsideApp == UNCHANGED <<pullLocals, sanVars, pushLocals, exportVars, formVars>>

\* faulty variant: init keeps the token when the triple is the same
ApiInit_KeepSame(cfg) ==
    /\ apiConfig' = cfg
    /\ sessionId' = IF cfg = apiConfig THEN sessionId ELSE NoSession
    /\ authsSinceInit' = 0
    /\ lastEvent' = InitEvent(cfg)

\* VeevaAPI.init (api.js:32-38)
ApiInit(cfg) ==
    /\ apiConfig' = cfg
    /\ sessionId' = NoSession
    /\ authsSinceInit' = 0
    /\ lastEvent' = InitEvent(cfg)

\* a handler calls a VeevaAPI operation, which runs up to its first await
Launch(new, before) ==
    /\ calls' = IF Finished(new) THEN calls ELSE calls (+) SetToBag({new})
    /\ overlapped' = (before \/ (new.stage = "auth" /\ PendingAuth(calls)))

\* faulty variant: the flag is reset after the operation call, not in a
\* finally block, so a thrown error leaves it set
Land_ResetOnReturnOnly(old, new, fail) ==
    LET rest == calls (-) SetToBag({old})
        chained == new.stage = "returned" /\ new.next # "none"
        cont == IF chained
                THEN GetSessionId(NewCall(new.next, "none", new.exec, MaxRequests),
                                  sessionId', apiConfig')
                ELSE new
        gone == Finished(new) /\ ~chained
    IN  /\ calls' = IF gone THEN rest ELSE rest (+) SetToBag({cont})
        /\ lastEvent' = IF Finished(new) THEN DoneEvent(old, new, fail)
                        ELSE NoEvent
        /\ operationInProgress' = IF gone /\ new.exec /\ new.stage = "returned"
                                  THEN FALSE
                                  ELSE operationInProgress
        /\ overlapped' = (overlapped \/
                            (chained /\ cont.stage = "auth" /\ PendingAuth(rest)))

\* the call old resumes and runs as new up to its next await or its end;
\* a handler whose operation returned calls the next one (app.js:636-658)
Land(old, new, fail) ==
    LET rest == calls (-) SetToBag({old})
        chained == new.stage = "returned" /\ new.next # "none"
        cont == IF chained
                THEN GetSessionId(NewCall(new.next, "none", new.exec, MaxRequests),
                                  sessionId', apiConfig')
                ELSE new
        gone == Finished(new) /\ ~chained
    IN  /\ calls' = IF gone THEN rest ELSE rest (+) SetToBag({cont})
        /\ lastEvent' = IF Finished(new) THEN DoneEvent(old, new, fail)
                        ELSE NoEvent
        \* finally { AppState.reset(); } (app.js:607-609)
        /\ operationInProgress' = IF gone /\ new.exec THEN FALSE
                                  ELSE operationInProgress
        /\ overlapped' = (overlapped \/
                            (chained /\ cont.stage = "auth" /\ PendingAuth(rest)))

\* testConnection of app.js (app.js:252-292)
ClickTestConnection ==
    \E cfg \in Configs :
        /\ InFlight < MaxCalls
        /\ ApiInit(cfg)
        /\ Launch(GetSessionId(NewCall("testConnection", "none", FALSE, 0),
                               sessionId', apiConfig'),
                  Overlap(calls))
        /\ UNCHANGED operationInProgress
        /\ OutsideApp

\* fetchVaultObjects (app.js:297-333)
ClickFetchObjects ==
    \E cfg \in Configs :
        /\ InFlight < MaxCalls
        /\ ApiInit(cfg)
        /\ Launch(GetSessionId(NewCall("fetchObjects", "none", FALSE, 1),
                               sessionId', apiConfig'),
                  Overlap(calls))
        /\ UNCHANGED operationInProgress
        /\ OutsideApp

\* onObjectSelected (app.js:357-399): no init
SelectObject ==
    /\ InFlight < MaxCalls
    /\ Launch(GetSessionId(NewCall("fetchObjectFields", "none", FALSE, 1),
                           sessionId, apiConfig),
              overlapped)
    /\ lastEvent' = NoEvent
    /\ UNCHANGED <<sessionId, apiConfig, operationInProgress, authsSinceInit>>
    /\ OutsideApp

\* what executeOperation can go on to call (app.js:592-602, 636-658, 728-852)
ExecPlans ==
    {NewCall("fetchObjectFields", "pullData", TRUE, 1),
     NewCall("pullData", "none", TRUE, MaxRequests),
     NewCall("exportMetadata", "none", TRUE, 0)} \cup
    {NewCall("pushData", "none", TRUE, n) : n \in 0..MaxRequests}

\* faulty variant: executeOperation does not look at operationInProgress
ClickExecute_NoGuard ==
    \E cfg \in Configs, plan \in ExecPlans :
        /\ InFlight < MaxCalls
        /\ ApiInit(cfg)
        /\ LET new == GetSessionId(plan, sessionId', apiConfig')
           IN  /\ Launch(new, Overlap(calls))
               /\ operationInProgress' = (operationInProgress \/ ~Finished(new))
        /\ OutsideApp

\* executeOperation (app.js:566-610) that goes on to a VeevaAPI operation
ClickExecute ==
    \E cfg \in Configs, plan \in ExecPlans :
        /\ ~operationInProgress
        /\ InFlight < MaxCalls
        /\ ApiInit(cfg)
        /\ LET new == GetSessionId(plan, sessionId', apiConfig')
           IN  /\ Launch(new, Overlap(calls))
               /\ operationInProgress' = ~Finished(new)
        /\ OutsideApp

\* executeOperation whose operation handler returns on a failed validation
\* (app.js:625-633, 737-752, 865-868): init has run, no operation is called
ClickExecuteInvalid ==
    \E cfg \in Configs :
        /\ ~operationInProgress
        /\ ApiInit(cfg)
        /\ overlapped' = Overlap(calls)
        /\ UNCHANGED <<calls, operationInProgress>>
        /\ OutsideApp

\* history: executeOperation returned at its first test
IgnoredEvent == [NoEvent EXCEPT !.kind = "ignored"]

\* executeOperation while an operation is in progress (app.js:567-569): it
\* returns before the try, so the finally block does not run
ClickExecuteIgnored ==
    /\ operationInProgress
    /\ lastEvent' = IgnoredEvent
    /\ UNCHANGED <<sessionId, apiConfig, operationInProgress, calls,
                   authsSinceInit, overlapped>>
    /\ OutsideApp

\* the exchange answers with a sessionId (api.js:70-72)
SessionIssued ==
    \E c \in BagToSet(calls) :
        /\ c.stage = "auth"
        /\ c.authConfig \in Configs
        /\ sessionId' = TokenOf(c.authConfig)
        \* counted up to "more than one"
        /\ authsSinceInit' = Min(authsSinceInit + 1, 2)
        /\ UNCHANGED apiConfig
        /\ Land(c, WithToken(c, sessionId'), NoFailure)
        /\ OutsideApp

\* the exchange answers with a success status and no sessionId (api.js:70-72):
\* data.sessionId is undefined, which tests like null
SessionMissing ==
    \E c \in BagToSet(calls) :
        /\ c.stage = "auth"
        /\ sessionId' = NoSession
        /\ UNCHANGED <<apiConfig, authsSinceInit>>
        /\ Land(c, WithToken(c, sessionId'), NoFailure)
        /\ OutsideApp

\* the exchange is refused or unreachable (api.js:65-68, 73-76); testConnection
\* of VeevaAPI turns the error into false (api.js:96-104)
SessionRefused ==
    \E c \in BagToSet(calls), fail \in AuthFailures :
        /\ c.stage = "auth"
        /\ UNCHANGED <<sessionId, apiConfig, authsSinceInit>>
        /\ Land(c, [c EXCEPT !.stage = IF c.op = "testConnection"
                                       THEN "returned" ELSE "threw"], fail)
        /\ OutsideApp

\* exportMetadata receives the object list (api.js:404-419)
ListOk ==
    \E c \in BagToSet(calls), n \in 1..MaxRequests :
        /\ c.stage = "list"
        /\ UNCHANGED <<sessionId, apiConfig, authsSinceInit>>
        /\ Land(c, [c EXCEPT !.stage = "data", !.left = n - 1], NoFailure)
        /\ OutsideApp

\* faulty variant: an answer makes the operation authenticate again before
\* its next request
ResponseContinue_Reauth ==
    \E c \in BagToSet(calls) :
        /\ c.stage = "data"
        /\ c.op \in {"pullData", "pushData", "exportMetadata"}
        /\ c.left > 0
        /\ UNCHANGED <<sessionId, apiConfig, authsSinceInit>>
        /\ Land(c, [c EXCEPT !.stage = "auth", !.authConfig = apiConfig,
                            !.token = NoSession], NoFailure)
        /\ OutsideApp

\* an answer after which the operation issues its next request: a page or a
\* failure of pullData (api.js:195-264), a batch (api.js:317-378), an object
\* of exportMetadata (api.js:421-463)
ResponseContinue ==
    \E c \in BagToSet(calls) :
        /\ c.stage = "data"
        /\ c.op \in {"pullData", "pushData", "exportMetadata"}
        /\ c.left > 0
        /\ UNCHANGED <<sessionId, apiConfig, authsSinceInit>>
        /\ Land(c, [c EXCEPT !.left = c.left - 1], NoFailure)
        /\ OutsideApp

\* an answer after which the operation returns: the list or the fields
\* (api.js:127, 157), an empty page (api.js:213-215), the last batch, the
\* last object or an object list without objects
ResponseReturn ==
    \E c \in BagToSet(calls) :
        /\ \/ c.stage = "list"
           \/ /\ c.stage = "data"
              /\ \/ c.op \in {"fetchObjects", "fetchObjectFields", "pullData"}
                 \/ c.left = 0
        /\ UNCHANGED <<sessionId, apiConfig, authsSinceInit>>
        /\ Land(c, [c EXCEPT !.stage = "returned"], NoFailure)
        /\ OutsideApp

\* a failed request that ends the operation (api.js:122-124, 152-154, 410-412)
ResponseThrow ==
    \E c \in BagToSet(calls) :
        /\ \/ c.stage = "list"
           \/ c.stage = "data" /\ c.op \in {"fetchObjects", "fetchObjectFields"}
        /\ UNCHANGED <<sessionId, apiConfig, authsSinceInit>>
        /\ Land(c, [c EXCEPT !.stage = "threw"], NoFailure)
        /\ OutsideApp

AppIdle ==
    /\ apiConfig = NoConfig
    /\ operationInProgress = FALSE
    /\ calls = EmptyBag
    /\ lastEvent = NoEvent
    /\ authsSinceInit = 0
    /\ overlapped = FALSE

InitApp == PullIdle /\ SanIdle /\ PushInit /\ AppIdle /\ ExportIdle /\ FormIdle

NextApp ==
    \/ ClickTestConnection
    \/ ClickFetchObjects
    \/ SelectObject
    \/ ClickExecute
    \/ ClickExecuteInvalid
    \/ ClickExecuteIgnored
    \/ SessionIssued
    \/ SessionMissing
    \/ SessionRefused
    \/ ListOk
    \/ ResponseContinue
    \/ ResponseReturn
    \/ ResponseThrow

SpecApp == InitApp /\ [][NextApp]_vars

InitPush == PullIdle /\ SanIdle /\ PushInit /\ AppIdle /\ ExportIdle /\ FormIdle

NextPush ==
    \/ PushCall
    \/ PushAuthOk
    \/ PushAuthFail
    \/ BatchOk
    \/ BatchRejected
    \/ BatchError
    \/ PushReturn

SpecPush == InitPush /\ [][NextPush]_vars

InitExport == PullIdle /\ SanIdle /\ PushInit /\ AppIdle /\ ExportIdle /\ FormIdle

NextExport ==
    \/ ExportCall
    \/ ExportAuthOk
    \/ ExportAuthFail
    \/ ExportListFail
    \/ ExportListOk
    \/ ExportFieldsFail
    \/ ExportFieldsOk
    \/ ExportReturn

SpecExport == InitExport /\ [][NextExport]_vars

\* pushData or exportMetadata, one at a time as executeOperation runs them
\* (app.js:567-571)
NextBulk ==
    \/ expPc = "idle" /\ NextPush
    \/ NextExport

SpecBulk == InitExport /\ [][NextBulk]_vars

\* the names of columns and remote fields
Names == ShortNames \cup {Account_Name, AccountName, Email, email, constructor}

\* the header of the loaded file
ColumnLists ==
    {<<>>, <<Account_Name, Email>>} \cup {<<name>> : name \in Names}

\* a mapping left by an earlier autoMapColumns: of the file with the column
\* "A" against the remote field "a"
EarlierMappings == {<<>>, <<[key |-> <<"A">>, value |-> <<"a">>]>>}

\* the form after a file was loaded or not, an object was selected or not
\* (app.js:357-399, 404-440), with the mapping an earlier file and object left
InitMap ==
    /\ PullIdle /\ SanIdle /\ PushInit /\ AppIdle /\ ExportIdle
    /\ inputFileData \in {NoFile} \cup {File(columns) : columns \in ColumnLists}
    /\ availableFields \in NameLists(Names, MaxFields)
    /\ columnMappings \in EarlierMappings
    \* entries are only ever set for the columns of a loaded file, and a
    \* loaded file is only ever replaced by another (app.js:418)
    /\ columnMappings # <<>> => inputFileData.loaded
    /\ lastCall = Called("none", NoForm, "none", <<>>)
    /\ SelIdle

NextMap ==
    \/ AutoMapColumns
    \/ SelectMapping
    \/ ClearMappings

SpecMap == InitMap /\ [][NextMap]_vars

\* the rows of a file with the one column "A": the value of the column, or a
\* row that lacks it
Rows == {<<>>} \cup {<<[key |-> <<"A">>, value |-> v]>> : v \in CellValues}
RowLists == UNION {[1..n -> Rows] : n \in 0..MaxRows}

\* mappings the form can hold: none, a column mapped by autoMapColumns, a
\* column whose select was set back to '- Select Field -', and the entry of
\* a column of an earlier file
FormMappings ==
    {<<>>,
     <<[key |-> <<"A">>, value |-> <<"a">>]>>,
     <<[key |-> <<"A">>, value |-> <<>>]>>,
     <<[key |-> <<"_">>, value |-> <<"a">>]>>}

\* the form when Execute is clicked
InitExecute ==
    /\ PullIdle /\ SanIdle /\ PushInit /\ AppIdle /\ ExportIdle
    /\ inputFileData \in {NoFile} \cup {FileWith(<<<<"A">>>>, rows) : rows \in RowLists}
    /\ availableFields \in {<<>>, <<<<"a">>>>}
    /\ columnMappings \in FormMappings
    /\ columnMappings # <<>> => inputFileData.loaded
    /\ lastCall = Called("none", NoForm, "none", <<>>)
    /\ pullObjectCombo \in {NoObject, "X", "Z"}
    /\ pushObjectCombo \in {NoObject, "X"}
    /\ fieldFetches = {}

NextExecute ==
    \/ ExecutePullOperation
    \/ PullFieldsFetched
    \/ PullFieldsFailed
    \/ ExecutePushOperation
    \/ ExecuteMetadataOperation

SpecExecute == InitExecute /\ [][NextExecute]_vars

\* the pull and push forms from page load on.  The form is left alone while
\* executePullOperation awaits the fields of its object.
InitForm == PullIdle /\ SanIdle /\ PushInit /\ AppIdle /\ ExportIdle /\ FormIdle

NextForm ==
    \/ /\ ~AwaitsFields
       /\ \/ HandleFileUpload
          \/ OnObjectSelected
          \/ FieldsFetched
          \/ FieldsFetchFailed
          \/ AutoMapColumns
          \/ SelectMapping
          \/ ClearMappings
    \/ ExecutePullOperation
    \/ PullFieldsFetched
    \/ PullFieldsFailed

SpecForm == InitForm /\ [][NextForm]_vars

InitSanitize == PullIdle /\ SanInit /\ PushInit /\ AppIdle /\ ExportIdle /\ FormIdle

NextSanitize == Clean

SpecSanitize == InitSanitize /\ [][NextSanitize]_vars

Init == PullInit /\ SanIdle /\ PushInit /\ AppIdle /\ ExportIdle /\ FormIdle

Next ==
    \/ PullCall
    \/ AuthOk
    \/ AuthFail
    \/ PageOk
    \/ PageEmpty
    \/ PageFailRetry
    \/ PageFailSkip
    \/ RetryOk
    \/ RetryEmpty
    \/ RetryFail
    \/ PullReturn

Spec == Init /\ [][Next]_vars

\* The event loop runs every continuation and every request is answered
\* (with a page or with a failure).
SpecLive == Spec /\ WF_vars(Next)

(***************************************************************************)
(* Properties of pullData                                                  *)
(***************************************************************************)
Awaiting == pc \in {"auth", "page", "retry"}
Returned == pc \in {"done", "error"}

\* a step that handles the answer to the request in flight
ResponseStep == pc \in {"page", "retry"} /\ vars' # vars

RECURSIVE FlattenPages(_)
\* the records of the pages named in a sequence of <<offset, limit>>, in order
FlattenPages(pages) ==
    IF pages = <<>> THEN <<>>
    ELSE Page(pages[1][1], pages[1][2]) \o FlattenPages(Tail(pages))

\* C1: every call of pullData eventually returns (records or final error),
\* whatever the remote answers, also when it fails every request from some
\* offset on.
C1_PullEventuallyReturns == Awaiting ~> Returned

\* C2: when the original request fails and the half-size retry succeeds with
\* a non-empty page, the cursor advances by the half size and the next
\* request is issued at the new cursor with the original page size.
C2_RetrySuccessResumesOriginalSize ==
    [][(pc = "retry" /\ vars' # vars /\ lastResponse' = "ok")
        => /\ offset' = offset + (batchSize \div 2)
           /\ batchSize' = batchSize
           /\ pc' = "page"
           /\ reqOffset' = offset'
           /\ reqLimit' = batchSize]_vars

C2_Witness ==
    /\ pc = "page"
    /\ ingested # <<>>
    /\ ingested[Len(ingested)][2] = batchSize \div 2
    /\ reqOffset = ingested[Len(ingested)][1] + (batchSize \div 2)
    /\ reqLimit = batchSize
    /\ lastResponse = "ok"

\* C3: when the original request and the half-size retry both fail, the
\* cursor advances by exactly the half size and the next request is a first
\* request at the new cursor; an iteration issues at most two requests, the
\* first at the original size and the second at floor(size/2), both at the
\* cursor, so no offset is requested a third time.
C3_Requests ==
    /\ attempt \in 0..2
    /\ pc = "page" => attempt = 1 /\ reqLimit = batchSize /\ reqOffset = offset
    /\ pc = "retry" => /\ attempt = 2
                       /\ reqLimit = batchSize \div 2
                       /\ reqOffset = offset

C3_DoubleFailureStep ==
    (pc = "retry" /\ vars' # vars /\ lastResponse' = "fail")
        => /\ offset + (batchSize \div 2) <= MaxOffset
                => offset' = offset + (batchSize \div 2)
           /\ offset < MaxOffset => offset' > offset
           /\ pc' = "page"
           /\ attempt' = 1
           /\ reqOffset' = offset'
           /\ reqLimit' = batchSize

C3_DoubleFailureAdvancesHalf ==
    []C3_Requests /\ [][C3_DoubleFailureStep]_vars

C3_Witness ==
    /\ pc = "page"
    /\ lastResponse = "fail"
    /\ batchSize \div 2 >= 10
    /\ offset = batchSize \div 2
    /\ allData = <<>>
    /\ dataLen > 0

\* C4: a failed page request with floor(pageSize/2) < 10 is not retried and
\* the cursor advances by the original page size; with floor(pageSize/2) >= 10
\* exactly one retry is issued, at the same offset with the half size.
C4_FailureStep ==
    (pc = "page" /\ vars' # vars /\ lastResponse' = "fail")
        => IF batchSize \div 2 < 10
           THEN /\ pc' = "page"
                /\ attempt' = 1
                /\ offset + batchSize <= MaxOffset
                     => offset' = offset + batchSize
                /\ reqOffset' = offset'
                /\ reqLimit' = batchSize
           ELSE /\ pc' = "retry"
                /\ attempt' = 2
                /\ offset' = offset
                /\ reqOffset' = offset
                /\ reqLimit' = batchSize \div 2

C4_RetryOnlyOnce == pc = "retry" /\ vars' # vars => pc' # "retry"

C4_RetryFloor ==
    [][C4_FailureStep /\ C4_RetryOnlyOnce]_vars

C4_Witness ==
    /\ pc = "page"
    /\ lastResponse = "fail"
    /\ batchSize \div 2 < 10
    /\ offset = batchSize
    /\ allData = <<>>
    /\ dataLen > batchSize

\* C5: pagination ends on the first page received without records (empty or
\* no data): no request is issued after it; every request in flight carries
\* the current cursor as its offset, and the cursor only moves from 0 by
\* the advances of the loop.
C5_State ==
    /\ lastResponse = "empty" => pc \in {"done", "idle"} /\ reqOffset = NoRequest
    /\ ~moreData => lastResponse = "empty"
    /\ pc \in {"page", "retry"} => reqOffset = offset /\ moreData

C5_CursorStep ==
    offset' # offset
        => \/ pc = "idle" /\ offset' = 0
           \/ /\ pc \in {"page", "retry"}
              /\ lastResponse' \in {"ok", "fail"}
              /\ \/ offset' = offset + batchSize
                 \/ offset' = offset + (batchSize \div 2)
                 \/ offset' = MaxOffset

C5_EndsOnFirstEmptyPage ==
    []C5_State /\ [][C5_CursorStep]_vars

C5_Witness ==
    /\ pc = "done"
    /\ lastResponse = "empty"
    /\ offset > 0
    /\ offset < dataLen

\* C6: a failure of a page request or of its retry never reaches the caller:
\* pullData throws only when no page request was issued (authentication),
\* after a failure the loop goes on, and the records collected are those of
\* the pages that succeeded, in request order.
C6_State ==
    /\ pc = "error" => lastResponse = "none" /\ attempt = 0 /\ allData = <<>>
    /\ allData = FlattenPages(ingested)
    /\ \A i \in 1..(Len(allData) - 1) : allData[i] < allData[i + 1]

C6_FailureStep ==
    (ResponseStep /\ lastResponse' = "fail") => pc' \in {"page", "retry"}

C6_FailuresResolvedInside ==
    []C6_State /\ [][C6_FailureStep]_vars

C6_Witness ==
    /\ pc = "done"
    /\ Len(ingested) >= 2
    /\ \E i \in 1..(Len(allData) - 1) : allData[i + 1] > allData[i] + 1

\* C8: progressCallback is called exactly once per ingested non-empty page
\* (original or retried) with the number of records collected so far, never
\* for a failed, skipped or empty page; the reported values strictly increase.
C8_State ==
    /\ Len(progressCalls) = Len(ingested)
    /\ \A i \in 1..Len(progressCalls) :
          progressCalls[i] = Len(FlattenPages(SubSeq(ingested, 1, i)))
    /\ \A i \in 1..(Len(progressCalls) - 1) :
          progressCalls[i] < progressCalls[i + 1]
    /\ progressCalls # <<>> => progressCalls[Len(progressCalls)] = Len(allData)

C8_ProgressStep ==
    /\ (ResponseStep /\ lastResponse' = "ok")
          => progressCalls' = Append(progressCalls, Len(allData'))
    /\ (ResponseStep /\ lastResponse' \in {"fail", "empty"})
          => progressCalls' = progressCalls

C8_ProgressOncePerPage ==
    []C8_State /\ [][C8_ProgressStep]_vars

C8_Witness ==
    /\ Len(progressCalls) >= 2
    /\ lastResponse = "ok"
    /\ \E i \in 1..Len(ingested) : ingested[i][2] = batchSize \div 2
    /\ \E i \in 1..(Len(allData) - 1) : allData[i + 1] > allData[i] + 1


(***************************************************************************)
(* Properties of the clean-up                                              *)
(***************************************************************************)
\* position of the first c in str, 0 if there is none
FirstIndex(str, c) ==
    IF \E i \in 1..Len(str) : str[i] = c
    THEN CHOOSE i \in 1..Len(str) :
            str[i] = c /\ \A j \in 1..(i - 1) : str[j] # c
    ELSE 0

\* str without the characters at the positions in drop
Without(str, drop) ==
    LET Kept(i) == i \notin drop
        keep == SelectSeq([i \in 1..Len(str) |-> i], Kept)
    IN [k \in 1..Len(keep) |-> str[keep[k]]]

\* the value without its first '[' and its first ']'
WithoutFirstBrackets(str) ==
    Without(str, {FirstIndex(str, "["), FirstIndex(str, "]")})

\* C7 as stated: cleaning a string value removes exactly the first '[' and
\* the first ']' of the original value and nothing else; "[ABC]" becomes
\* "ABC" and "[A][B]" becomes "A][B".
C7_AsStated ==
    (sanPc = "clean" /\ sanInput.isString)
        => /\ sanOutput.isString
           /\ sanOutput.chars = WithoutFirstBrackets(sanInput.chars)
           /\ sanInput.chars = <<"[", "A", "B", "C", "]">>
                => sanOutput.chars = <<"A", "B", "C">>
           /\ sanInput.chars = <<"[", "A", "]", "[", "B", "]">>
                => sanOutput.chars = <<"A", "]", "[", "B">>

\* C7 amended: cleaning a string value removes exactly the first '[' and the
\* first ']' of the original value and nothing else; "[ABC]" becomes "ABC"
\* and "[A][B]" becomes "A[B]".
C7_RemovesFirstBracketsOnly ==
    (sanPc = "clean" /\ sanInput.isString)
        => /\ sanOutput.isString
           /\ sanOutput.chars = WithoutFirstBrackets(sanInput.chars)
           /\ sanInput.chars = <<"[", "A", "B", "C", "]">>
                => sanOutput.chars = <<"A", "B", "C">>
           /\ sanInput.chars = <<"[", "A", "]", "[", "B", "]">>
                => sanOutput.chars = <<"A", "[", "B", "]">>

C7_Witness ==
    /\ sanPc = "clean"
    /\ sanInput.chars = <<"[", "A", "]", "[", "B", "]">>
    /\ sanOutput.chars = <<"A", "[", "B", "]">>

(***************************************************************************)
(* Properties of pushData                                                  *)
(***************************************************************************)
Prepared == pushPc \in {"batch", "done"}

RECURSIVE Concat(_)
\* the concatenation of a sequence of sequences
Concat(seqs) ==
    IF seqs = <<>> THEN <<>> ELSE Head(seqs) \o Concat(Tail(seqs))

\* C9: for M records and a clamped batch size N >= 1, pushData builds exactly
\* ceil(M/N) batches, contiguous and in record order, each of N records
\* except possibly the last, which has M mod N records (N when N divides M);
\* the batches concatenated give back the input records.
C9_BatchPartition ==
    (Prepared /\ actualBatchSize >= 1)
        => LET M == Len(data)
               N == actualBatchSize
               B == Len(batches)
           IN /\ B = (M + N - 1) \div N
              /\ results.total = B
              /\ \A k \in 1..B :
                    /\ Len(batches[k]) =
                          IF k < B \/ M % N = 0 THEN N ELSE M % N
                    /\ \A j \in 1..Len(batches[k]) :
                          batches[k][j] = data[(k - 1) * N + j]
              /\ Concat(batches) = data

C9_Witness ==
    /\ pushPc = "done"
    /\ Len(data) = 2 * MergeBatchLimit + 1
    /\ actualBatchSize = MergeBatchLimit
    /\ Len(batches) = 3
    /\ Len(batches[3]) = 1

\* C10: whatever batch size is requested, every batch pushData submits has at
\* most 10 records for merge and at most 500 records for insert, update and
\* delete.
C10_BatchSizeCeiling ==
    /\ \A k \in 1..Len(batches) :
          Len(batches[k]) <= IF operation = "merge" THEN 10 ELSE 500
    /\ \A k \in 1..Len(submitted) : submitted[k] \in 1..Len(batches)
    /\ pushPc = "batch" => submitted # <<>>

C10_Witness ==
    /\ pushPc = "batch"
    /\ operation = "merge"
    /\ pushBatchSize = DefaultPushBatchSize
    /\ Len(batches[batchIndex + 1]) = MergeBatchLimit


\* a batch of the call has failed (rejected or thrown)
SomeBatchFailed ==
    \E k \in 1..Len(results.logs) : results.logs[k].status \notin OkStatuses

\* C11: when pushData returns, success + failures = total = number of log
\* entries; after each processed batch k, success + failures = k.
C11_CountsAddUp ==
    /\ results.success + results.failures = batchIndex
    /\ Len(results.logs) = batchIndex
    /\ results.success =
          Cardinality({k \in 1..Len(results.logs) :
                          results.logs[k].status \in OkStatuses})
    /\ pushPc = "done"
          => /\ results.success + results.failures = results.total
             /\ results.total = Len(results.logs)
             /\ results.total = Len(batches)

C11_Witness ==
    /\ pushPc = "done"
    /\ results.total = 3
    /\ results.success >= 1
    /\ results.failures >= 1
    /\ \E k \in 1..3 : results.logs[k].status = "Error"

\* C12: a failed batch never aborts the remaining ones: the batches are
\* submitted one by one from 1, and when pushData returns every batch
\* 1..total was submitted exactly once and has exactly one log entry.
C12_State ==
    /\ submitted = [k \in 1..Len(submitted) |-> k]
    /\ Len(submitted) <= Len(batches)
    /\ pushPc = "done"
          => /\ Len(submitted) = results.total
             /\ \A b \in 1..results.total :
                   Cardinality({k \in 1..Len(results.logs) :
                                   results.logs[k].batch = b}) = 1

C12_FailureStep ==
    (pushPc = "batch" /\ Len(results'.logs) = Len(results.logs) + 1
       /\ results'.failures = results.failures + 1
       /\ batchIndex + 1 < Len(batches))
        => pushPc' = "batch" /\ submitted' = Append(submitted, batchIndex + 2)

C12_FailureDoesNotAbort ==
    []C12_State /\ [][C12_FailureStep]_vars

C12_Witness ==
    /\ pushPc = "done"
    /\ results.total >= 3
    /\ results.logs[1].status \notin OkStatuses
    /\ results.logs[results.total].status \in OkStatuses

\* C13: the log is in submission order: its k-th entry is the outcome of
\* batch k, batch k + 1 is sent only when the outcome of batch k is in the
\* log, and an entry once appended is never moved, removed or duplicated.
C13_State ==
    /\ \A k \in 1..Len(results.logs) : results.logs[k].batch = k
    /\ pushPc = "batch" => Len(submitted) = Len(results.logs) + 1
    /\ pushPc = "done" => Len(submitted) = Len(results.logs)

C13_LogStep ==
    pushPc \in {"batch", "done"} /\ pushPc' # "idle"
        => \/ results'.logs = results.logs
           \/ /\ Len(results'.logs) = Len(results.logs) + 1
              /\ SubSeq(results'.logs, 1, Len(results.logs)) = results.logs

C13_LogInSubmissionOrder ==
    []C13_State /\ [][C13_LogStep]_vars

C13_Witness ==
    /\ pushPc = "batch"
    /\ submitted = <<1, 2, 3>>
    /\ Len(results.logs) = 2
    /\ SomeBatchFailed

\* C14: progressCallback(k, total) is called exactly once after batch k, for
\* k = 1..total in increasing order, whether the batch succeeded or failed;
\* the last call is (total, total).
C14_ProgressAfterEveryBatch ==
    /\ pushProgress = [k \in 1..batchIndex |-> <<k, Len(batches)>>]
    /\ Len(pushProgress) = Len(results.logs)
    /\ pushPc = "done"
          => /\ Len(pushProgress) = results.total
             /\ results.total > 0
                   => pushProgress[Len(pushProgress)]
                         = <<results.total, results.total>>

C14_Witness ==
    /\ pushPc = "done"
    /\ results.total = 3
    /\ pushProgress = <<(<<1, 3>>), (<<2, 3>>), (<<3, 3>>)>>
    /\ results.logs[2].status = "Error"
    /\ results.logs[3].status \in OkStatuses

(***************************************************************************)
(* Claims about the session token and the handlers                         *)
(***************************************************************************)
\* the call c of the next state was not pending, or not so often, before
Started(c) == CopiesIn(c, calls') > CopiesIn(c, calls)

\* this step calls getSessionId: a handler starts, or a handler whose first
\* operation returned goes on to its next one
CalledNow ==
    \/ InFlight' > InFlight
    \/ /\ lastEvent'.kind = "done"
       /\ lastEvent'.outcome = "returned"
       /\ InFlight' = InFlight

\* C15: between two inits, getSessionId calls that do not overlap perform at
\* most one exchange that gives a token; a call made while a token is cached
\* issues no authentication request and gets exactly the cached token.
C15_State == ~overlapped => authsSinceInit <= 1

C15_CacheStep ==
    CalledNow =>
        \A c \in BagToSet(calls') :
            Started(c) =>
                IF sessionId' # NoSession
                THEN c.stage # "auth" /\ c.token = sessionId'
                ELSE c.stage = "auth"

C15_OneExchangePerInit ==
    []C15_State /\ [][C15_CacheStep]_vars

C15_Witness ==
    /\ ~overlapped
    /\ authsSinceInit = 1
    /\ \E c \in BagToSet(calls) :
          /\ c.stage = "data"
          /\ c.authConfig = NoConfig
          /\ c.token = sessionId
          /\ c.token # NoSession

\* C16: a cached token was issued for the configuration VeevaAPI holds now,
\* also when an exchange started under an earlier configuration completes
\* after init.
C16_NoStaleToken ==
    sessionId # NoSession => sessionId = TokenOf(apiConfig)

\* C17 as stated: init with the same endpoint, username and password keeps the
\* cached token, so the operation that follows needs no new exchange.
C17_AsStated ==
    [][(lastEvent'.kind = "init" /\ lastEvent'.same /\ lastEvent'.hadToken)
          => /\ sessionId' = sessionId
             /\ \A c \in BagToSet(calls') : Started(c) => c.stage # "auth"]_vars

\* C17: every init discards the cached token, also an init with the same
\* endpoint, username and password; the operation that follows starts a new
\* authentication exchange for the configuration given to init.
C17_InitDiscardsToken ==
    [][lastEvent'.kind = "init"
          => /\ sessionId' = NoSession
             /\ \A c \in BagToSet(calls') :
                   Started(c) => c.stage = "auth" /\ c.authConfig = apiConfig']_vars

C17_Witness ==
    /\ lastEvent.kind = "init"
    /\ lastEvent.same
    /\ lastEvent.hadToken
    /\ sessionId = NoSession
    /\ \E c \in BagToSet(calls) : c.stage = "auth" /\ c.authConfig = apiConfig

\* C18: when the exchange answers with a non-success status, the error of
\* getSessionId carries that status and the message of the remote service,
\* whatever the body is, and the cached token is left as it was.
C18_RefusalCarriesStatus ==
    [][lastEvent'.authFailure.status \in RefusedStatuses
          => /\ lastEvent'.authFailure.error.status = lastEvent'.authFailure.status
             /\ lastEvent'.authFailure.body = "message"
                   => lastEvent'.authFailure.error.message = "remote message"
             /\ sessionId' = sessionId]_vars

\* the operations that send data requests
DataOperations == ApiOperations \ {"testConnection"}

\* an operation whose getSessionId threw sent no data request and threw
FailedAuthStopsOperation ==
    (/\ lastEvent.kind = "done"
     /\ lastEvent.op \in DataOperations
     /\ lastEvent.authFailure # NoFailure)
        => ~lastEvent.requested /\ lastEvent.outcome = "threw"

\* C19: pullData, pushData, exportMetadata, fetchObjects and fetchObjectFields
\* hold a token whenever one of their data requests is pending; when the
\* authentication fails they send no data request and throw its error.
C19_TokenBeforeData ==
    /\ \A c \in BagToSet(calls) :
          (c.op \in DataOperations /\ c.stage \in {"list", "data"})
             => c.token # NoSession
    /\ FailedAuthStopsOperation

\* C20: at most one request of the program awaits its response at any time,
\* however the handlers test connection, fetch objects, object selection and
\* execute interleave.
C20_OneRequestInFlight == InFlight <= 1

(***************************************************************************)
(* Claims about exportMetadata                                             *)
(***************************************************************************)
IsAscending(names) ==
    \A i, j \in 1..Len(names) : i < j => ~Before(names[j], names[i])

\* the two sequences hold the same names, each as often
SameNames(s, t) ==
    /\ Len(s) = Len(t)
    /\ \A x \in ObjectNames \cup FieldNames :
          Cardinality({k \in 1..Len(s) : s[k] = x})
             = Cardinality({k \in 1..Len(t) : t[k] = x})

\* the field names of the pairs that came from object i, in result order
FieldsFrom(i) ==
    LET FromI(p) == p.index = i
        own == SelectSeq(expResults, FromI)
    IN  [k \in 1..Len(own) |-> own[k].field]

\* C23: the result holds one pair per field of every object whose field
\* request succeeded; objects come in ascending name order (as sort() orders
\* strings), the fields of an object in ascending name order, and the pairs
\* of one object are contiguous.
C23_SortedPairs ==
    /\ IsAscending(expObjects)
    /\ expPc \in {"fields", "done"} => SameNames(expObjects, expListed)
    /\ \A k \in 1..Len(expResults) :
          /\ expResults[k].index \in 1..expIndex
          /\ expResults[k].object = expObjects[expResults[k].index]
          /\ k > 1 => expResults[k - 1].index <= expResults[k].index
    /\ \A i \in 1..Len(expFetched) :
          expFetched[i].ok
             => /\ IsAscending(FieldsFrom(i))
                /\ SameNames(FieldsFrom(i), expFetched[i].fields)

C23_Witness ==
    /\ expPc = "done"
    /\ expListed = <<(<<"a">>), (<<"B">>)>>
    /\ expFetched[1].fields = <<(<<"a", "B">>), (<<"a">>)>>
    /\ expFetched[2].fields = <<(<<"a">>), (<<"a", "B">>)>>
    /\ Len(expResults) = 4

\* C24: an object whose field request fails adds no pair and the loop goes
\* on; progressCallback(k, total) is called once per object k = 1..total
\* whatever the outcome, so the last call is (total, total).
C24_FailedObjectSkipped ==
    /\ Len(expFetched) = expIndex
    /\ \A i \in 1..Len(expFetched) : ~expFetched[i].ok => FieldsFrom(i) = <<>>
    /\ expProgress = [k \in 1..expIndex |-> <<k, Len(expObjects)>>]
    /\ expPc = "done" => expIndex = Len(expObjects)
    /\ expFetched # <<>> => expPc # "error"

C24_Witness ==
    /\ expPc = "done"
    /\ Len(expObjects) = 2
    /\ expFetched[1].ok
    /\ ~expFetched[2].ok
    /\ Len(expResults) = 2
    /\ expProgress[Len(expProgress)] = <<2, 2>>

\* C25 as stated: pushData and exportMetadata throw only when the
\* authentication fails.
C25_AsStated ==
    /\ pushPc = "error" => submitted = <<>>
    /\ expPc = "error" => expFailure = "auth"

\* C25: pushData throws only when the authentication fails; exportMetadata
\* throws when the authentication or its object-list request fails; a failed
\* batch or a failed field request of one object never makes the call throw.
C25_ThrowsOnlyBeforeTheLoop ==
    /\ pushPc = "error" => submitted = <<>> /\ results.logs = <<>>
    /\ SomeBatchFailed => pushPc # "error"
    /\ expPc = "error" => expFailure \in {"auth", "list"} /\ expFetched = <<>>
    /\ (\E i \in 1..Len(expFetched) : ~expFetched[i].ok) => expPc # "error"

C25_Witness ==
    /\ expPc = "error"
    /\ expFailure = "list"

\* C27: every field value of a record returned by pullData is a string,
\* whatever the remote service sent (null, a number, a nested structure).
C27_PulledValuesAreStrings ==
    sanPc = "clean" => sanOutput.isString

(***************************************************************************)
(* Claims about the column mapping and the operation handlers              *)
(***************************************************************************)
FieldSet == {availableFields[k] : k \in 1..Len(availableFields)}
ColumnSet == {inputFileData.columns[k] : k \in 1..Len(inputFileData.columns)}

\* the remote fields that are equal to key when case is ignored
FieldsLike(key) == {f \in FieldSet : ToLowerCase(f) = ToLowerCase(key)}

\* the remote fields the first matching rule of the four allows for a column
FirstHits(column) ==
    IF column \in FieldSet THEN {column}
    ELSE IF FieldsLike(column) # {} THEN FieldsLike(column)
    ELSE IF FieldsLike(Replace(column, "_", " ")) # {}
         THEN FieldsLike(Replace(column, "_", " "))
    ELSE FieldsLike(Replace(column, " ", "_"))

\* autoMapColumns has just run on a loaded file and a list of remote fields
AutoMapRan ==
    /\ lastCall.handler = "autoMapColumns"
    /\ inputFileData.loaded
    /\ availableFields # <<>>

MappedByFirstHit(column) ==
    IF FirstHits(column) = {} THEN column \notin Keys(columnMappings)
    ELSE /\ column \in Keys(columnMappings)
         /\ Get(columnMappings, column) \in FirstHits(column)

\* C21: after autoMapColumns every column is mapped to a hit of the first of
\* the four rules that has one, a column without a hit has no entry, and
\* every mapped value is a remote field name.
C21_FirstHitInRuleOrder ==
    AutoMapRan =>
        /\ \A column \in ColumnSet : MappedByFirstHit(column)
        /\ Keys(columnMappings) \subseteq ColumnSet
        /\ \A k \in 1..Len(columnMappings) : columnMappings[k].value \in FieldSet

\* the same for the columns that are not named like an inherited property
RuleOrderOnOwnKeys ==
    AutoMapRan =>
        \A column \in ColumnSet :
            ToLowerCase(column) # constructor
               => /\ MappedByFirstHit(column)
                  /\ column \in Keys(columnMappings)
                        => Get(columnMappings, column) \in FieldSet

\* C22: every invocation of autoMapColumns leaves only entries computed from
\* the current columns and the current remote fields, also when there is no
\* file or no remote field.
C22_AutoMapReplaces ==
    [][lastCall'.handler = "autoMapColumns"
          => \A k \in 1..Len(columnMappings') :
                /\ columnMappings'[k].key \in ColumnSet
                /\ columnMappings'[k].value
                      = MatchFor(columnMappings'[k].key, availableFields)]_vars

(***************************************************************************)
(* The execute handlers of the form (SpecExecute).                         *)
(***************************************************************************)
\* C26: every field value of every record that executePushOperation hands to
\* pushData is a string, whatever the operation, the mapping and the file
C26_PushedValuesAreStrings ==
    lastCall.called = "pushData" =>
        \A r \in 1..Len(lastCall.records) :
            \A k \in 1..Len(lastCall.records[r]) :
                lastCall.records[r][k].value.kind = "string"

\* an insert of a file whose row holds a number went to pushData as text
C26_Witness ==
    /\ lastCall.called = "pushData"
    /\ lastCall.form.crud = "insert"
    /\ inputFileData.data = <<<<[key |-> <<"A">>, value |-> Cell("number", <<"1">>)]>>>>
    /\ lastCall.records = <<<<[key |-> <<"a">>, value |-> Cell("string", <<"1">>)]>>>>

\* no column of the file is mapped to a field
NoColumnMapped ==
    \A k \in 1..Len(columnMappings) : ~Truthy(columnMappings[k].value)

\* a required input of the handler that ran last is missing
MissingInput ==
    CASE lastCall.handler = "executePullOperation" ->
            lastCall.form.object = NoObject \/ ~lastCall.form.target
      [] lastCall.handler = "executePushOperation" ->
            \/ lastCall.form.object = NoObject
            \/ ~inputFileData.loaded
            \/ lastCall.form.crud # "merge" /\ NoColumnMapped
      [] lastCall.handler = "executeMetadataOperation" -> ~lastCall.form.target
      [] OTHER -> FALSE

\* C28: a handler that misses a required input (object or output file for
\* pull; object, input file or a mapped column for a push other than merge;
\* output file for the metadata export) calls no VeevaAPI operation, so no
\* request is issued
C28_StopsBeforeAnyRequest == MissingInput => lastCall.called = "none"

\* the same with the mapping counted as present as soon as it has an entry,
\* whatever the entry maps to
StopsWhenNoEntry ==
    (/\ MissingInput
     /\ ~(/\ lastCall.handler = "executePushOperation"
          /\ lastCall.form.object # NoObject
          /\ inputFileData.loaded
          /\ columnMappings # <<>>))
        => lastCall.called = "none"
(***************************************************************************)
(* Claims about the token of a running operation (SpecApp).                *)
(***************************************************************************)
\* the call old of this state resumes in the step
Resumed(old) == CopiesIn(old, calls') < CopiesIn(old, calls)

\* the operations that issue several data requests
BulkOperations == {"pullData", "pushData", "exportMetadata"}

\* C29: a pullData, pushData or exportMetadata call that has issued a data
\* request starts no authentication exchange any more, whatever the answers
\* are: each later request of the call carries the token of the first one
C29_TokenOnceAtStart ==
    [][\A old \in BagToSet(calls), c \in BagToSet(calls') :
          (/\ Resumed(old) /\ Started(c)
           /\ old.op \in BulkOperations /\ c.op = old.op
           /\ old.stage \in {"list", "data"})
             => /\ c.stage = "data"
                /\ c.token = old.token]_vars

\* a pullData call has sent its last request with a token, after an answer
\* to an earlier request
C29_Witness ==
    \E c \in BagToSet(calls) :
        /\ c.op = "pullData"
        /\ c.stage = "data"
        /\ c.left = 0
        /\ c.token # NoSession

\* C30: every data request of pullData, pushData and exportMetadata that
\* carries a token carries one issued by the endpoint the request is sent to
\* (this.apiUrl when the request is built), also the requests a running
\* operation sends after init was called with another endpoint
C30_TokenOfRequestEndpoint ==
    [][\A c \in BagToSet(calls') :
          (/\ Started(c)
           /\ c.op \in BulkOperations
           /\ c.stage \in {"list", "data"}
           /\ c.token # NoSession)
             => c.token = TokenOf(apiConfig')]_vars

\* an operation that obtained its token from vault-A sends a later request
\* after init was given vault-B and before any exchange with vault-B ended
OldTokenToNewEndpoint ==
    \E c \in BagToSet(calls) :
        /\ c.op \in BulkOperations
        /\ c.stage = "data"
        /\ c.left = 0
        /\ c.token = TokenOf("vault-A")
        /\ apiConfig = "vault-B"
        /\ sessionId = NoSession
        /\ PendingAuth(calls)
(***************************************************************************)
(* Claims about overlapping handlers (SpecApp).                            *)
(***************************************************************************)
\* an exchange for the configuration cfg awaits its answer
ExchangePending(cfg) ==
    \E p \in BagToSet(calls) : p.stage = "auth" /\ p.authConfig = cfg

\* C31: a getSessionId call that starts while an authentication exchange for
\* the same configuration is in flight starts no second exchange, so
\* overlapping calls under one configuration perform one exchange in total
C31_OneExchangeWhenOverlapping ==
    [][\A c \in BagToSet(calls') :
          (/\ Started(c) /\ c.stage = "auth" /\ c.authConfig \in Configs
           \* the step holds no init: the configuration is the one of the
           \* exchange in flight
           /\ lastEvent'.kind # "init")
             => ~ExchangePending(c.authConfig)]_vars
\* testConnection of VeevaAPI has returned true in the latest step
TestConnectionTrue ==
    /\ lastEvent.kind = "done"
    /\ lastEvent.op = "testConnection"
    /\ lastEvent.outcome = "returned"
    /\ lastEvent.authFailure = NoFailure

\* getSessionId returns from its exchange to the call c in this step
ReturnsFromExchange(c) ==
    /\ Started(c)
    /\ c.stage \in {"list", "data"}
    /\ \E old \in BagToSet(calls) :
          Resumed(old) /\ old.stage = "auth" /\ old.op = c.op

\* C32: what getSessionId returns normally is a non-empty token, the cached
\* sessionId; testConnection returns true only with a non-empty token cached
C32_ReturnsCachedToken ==
    /\ [](TestConnectionTrue => sessionId # NoSession)
    /\ [][\A c \in BagToSet(calls') :
             ReturnsFromExchange(c)
                => c.token = sessionId' /\ c.token # NoSession]_vars
(***************************************************************************)
(* Claims about the pages of pullData (Spec).                              *)
(***************************************************************************)
\* C33: the ranges [offset, offset + limit) of the ingested pages are
\* pairwise disjoint and come in strictly increasing offset, and no remote
\* record position is in allData twice
C33_IngestedRangesDisjoint ==
    /\ \A i, j \in 1..Len(ingested) :
          i < j => ingested[i][1] + ingested[i][2] <= ingested[j][1]
    /\ \A i, j \in 1..Len(allData) : i < j => allData[i] # allData[j]

\* a full page, then a skipped range, then a page of half the size
C33_Witness ==
    /\ Len(ingested) >= 2
    /\ \E i \in 1..(Len(ingested) - 1) :
          /\ ingested[i][2] = batchSize
          /\ ingested[i + 1][2] = batchSize \div 2
          /\ ingested[i + 1][1] > ingested[i][1] + ingested[i][2]
(***************************************************************************)
(* Claims about AppState.operationInProgress (SpecApp).                    *)
(***************************************************************************)
\* the executeOperation invocations that await their operation
Executing == {c \in BagToSet(calls) : c.exec}

\* C34: at most one execute operation runs at a time; an Execute click that
\* arrives while operationInProgress is true starts no operation, issues no
\* request and leaves the flag true
C34_OneExecuteAtATime ==
    /\ [](\A c \in Executing : CopiesIn(c, calls) = 1)
    /\ [](Cardinality(Executing) <= 1)
    /\ [][lastEvent'.kind = "ignored"
            => /\ operationInProgress /\ operationInProgress'
               /\ calls' = calls
               /\ sessionId' = sessionId /\ apiConfig' = apiConfig]_vars

\* an Execute click was ignored while a data request of the running
\* operation was pending
C34_Witness ==
    /\ lastEvent.kind = "ignored"
    /\ \E c \in Executing : c.stage = "data"

\* C35: operationInProgress is true exactly while an executeOperation
\* invocation awaits its operation: it is false again after a normal end, a
\* validation return and a thrown error
C35_FlagFollowsOperation ==
    /\ [](operationInProgress <=> Executing # {})
    /\ [][(lastEvent'.kind = "done" /\ Executing' = {})
            => ~operationInProgress']_vars

\* an execute operation has just ended by throwing and the flag is down
C35_Witness ==
    /\ lastEvent.kind = "done"
    /\ lastEvent.outcome = "threw"
    /\ lastEvent.op \in BulkOperations
    /\ ~operationInProgress
    /\ calls = EmptyBag
(***************************************************************************)
(* Claims about the state of the forms (SpecForm).                         *)
(***************************************************************************)
\* C36: every key of columnMappings is a column of the loaded file, after any
\* sequence of file uploads, operation changes, object selections, auto-map,
\* clear and manual edits
C36_MappingOfLoadedFile == Keys(columnMappings) \subseteq ColumnSet
\* C37: the field list executePullOperation passes to pullData is the field
\* list of the object it pulls, whatever objects were selected before in the
\* two forms (with every selection answered before Execute is clicked)
C37_PullsFieldsOfItsObject ==
    (/\ lastCall.handler = "executePullOperation"
     /\ lastCall.called = "pullData"
     /\ fieldFetches = {})
        => lastCall.records = FieldsOf(lastCall.form.object)

\* pullData is called for X of the pull form with the fields of Y, which is
\* selected in the push form
PullsWithFieldsOfPushObject ==
    /\ lastCall.handler = "executePullOperation"
    /\ lastCall.called = "pullData"
    /\ lastCall.form.object = "X"
    /\ pushObjectCombo = "Y"
    /\ lastCall.records = FieldsOf("Y")
    /\ fieldFetches = {}

\* the same when executePullOperation has fetched the fields itself
FetchedFieldsAreOfItsObject ==
    [][(AwaitsFields /\ lastCall'.called = "pullData")
          => lastCall'.records = FieldsOf(lastCall'.form.object)]_vars
\* C38: when the last pending answer of a series of selections in the pull
\* form arrives, availableFields holds the fields of the object selected
\* last (the one the dropdown shows); an answer that arrives after the
\* answer for the latest selection does not replace its fields
C38_LatestSelectionWins ==
    [][(/\ fieldFetches # {} /\ fieldFetches' = {}
        /\ \A f \in fieldFetches : f.form = "pull"
        /\ pushObjectCombo = NoObject
        /\ pullObjectCombo \in Objects
        /\ availableFields = FieldsOf(pullObjectCombo))
          => availableFields' = FieldsOf(pullObjectCombo')]_vars
(***************************************************************************)
(* Claims about the batches and the report of a push (SpecPush).           *)
(***************************************************************************)
\* C39: for every batch size that reaches pushData, the preparation of the
\* batches ends and every prepared batch holds a record.  Stated for merge,
\* where a saved batch size below 1 reaches pushData as it is (for the other
\* operations updateCrudOperation replaces a loaded value of 10 or less).
C39_PreparationEndsNonEmpty ==
    operation = "merge" =>
        /\ pushPc # "preparing"
        /\ \A k \in 1..Len(batches) : batches[k] # <<>>

\* with a batch size of 1 or more the preparation ends with non-empty batches
PreparedWhenPositive ==
    pushBatchSize >= 1 =>
        /\ pushPc # "preparing"
        /\ \A k \in 1..Len(batches) : batches[k] # <<>>

\* results.logs.forEach: if (log.status === 200) Logger.info else Logger.error
\* (app.js:842-848)
LogLevel(log) == IF log.status = "200" THEN "info" ELSE "error"

\* the levels at which executePushOperation logs the returned results.logs
ReportLevels == [k \in 1..Len(results.logs) |-> LogLevel(results.logs[k])]

\* C40: in the report of a finished push every batch counted in
\* results.success is logged at info level and every batch counted in
\* results.failures is logged at error level
C40_ReportAgreesWithCounts ==
    pushPc = "done" =>
        /\ Cardinality({k \in 1..Len(results.logs) :
                           ReportLevels[k] = "info"}) = results.success
        /\ Cardinality({k \in 1..Len(results.logs) :
                           ReportLevels[k] = "error"}) = results.failures

\* every batch counted in results.failures is logged at error level, and a
\* batch answered with status 200 at info level
FailuresLoggedAtError ==
    pushPc = "done" =>
        \A k \in 1..Len(results.logs) :
            /\ results.logs[k].status \notin OkStatuses
                  => ReportLevels[k] = "error"
            /\ results.logs[k].status = "200" => ReportLevels[k] = "info"
====
